---- MODULE Spec2Model ----
(***************************************************************************)
(* A model of kilo.c: the key decoder (editor_read_key), the row buffer,   *)
(* the syntax highlighter, incremental search, save/quit handling and the  *)
(* main loop (editor_refresh_screen; editor_process_keypress).             *)
(*                                                                         *)
(* Bytes are their ASCII codes, C strings are sequences of bytes, C array  *)
(* indices are kept 0-based (At(s, i) is s[i]).  A row keeps the fields    *)
(* chars, render, hl (highlight) and hl_open_comment; the fields i, size   *)
(* and render_size are the row's position and the lengths of chars and     *)
(* render, which the code keeps equal to them.                             *)
(***************************************************************************)
EXTENDS Integers, Sequences, FiniteSets, TLC

(* ---------------------------------------------------------------- bytes *)
NUL == 0
TAB == 9
LF == 10
CR == 13
ESC == 27
SPACE == 32
DQUOTE == 34
SQUOTE == 39
DOT == 46
BACKSLASH == 92
BAR == 124

CTRL(x) == x % 32
CTRL_F == CTRL(102)
CTRL_H == CTRL(104)
CTRL_L == CTRL(108)
CTRL_Q == CTRL(113)
CTRL_S == CTRL(115)

(* enum editor_key *)
BACKSPACE == 127
ARROW_LEFT == 1000
ARROW_RIGHT == 1001
ARROW_UP == 1002
ARROW_DOWN == 1003
DEL_KEY == 1004
HOME_KEY == 1005
END_KEY == 1006
PAGE_UP == 1007
PAGE_DOWN == 1008

KILO_TAB_STOP == 8
KILO_QUIT_TIMES == 3

(* enum editor_highlight *)
HL_NORMAL == 0
HL_COMMENT == 1
HL_MLCOMMENT == 2
HL_KEYWORD1 == 3
HL_KEYWORD2 == 4
HL_STRING == 5
HL_NUMBER == 6
HL_MATCH == 7

HL_HIGHLIGHT_NUMBERS == 1
HL_HIGHLIGHT_STRINGS == 2

\* a null char pointer: a value no C string has
NULL == <<-1>>
\* editor.syntax == NULL; otherwise the field is 1 + the index into highlight_db
NO_SYNTAX == 0

(* ------------------------------------------------------- bounds of the model *)
MaxRows == 2        \* rows a document may hold
MaxBytes == 2       \* bytes the rows of a document may hold together
MaxDirty == 2       \* cap of the dirty counter
MaxBuf == 1         \* bytes typed at a prompt (main specification)
MaxQuery == 3       \* bytes typed at a prompt (search specification)
MaxLoadLen == 3     \* bytes of a file (load/save specification)
MaxTabQuery == 2     \* bytes typed at a prompt (tab search specification)
MaxColLen == 4       \* bytes of a row (column specification)
MaxNameLen == 4     \* bytes of a file name (file-name specification)
MaxScanLen == 4     \* bytes of a row (highlighting specification)
ScreenRows == 2     \* text rows of the window (editor.screen_rows)
ScreenCols == 3     \* columns of the window (editor.screen_cols)

(* ------------------------------------------------------------ C library *)
At(s, i) == s[i + 1]

isspace(ch) == ch \in {SPACE, 9, 10, 11, 12, 13}
isdigit(ch) == ch \in 48..57
\* FreeBSD's ctype returns 0 for an int outside the table (a key code >= 1000)
iscntrl(ch) == ch \in 0..31 \/ ch = 127

\* strncmp(&s[i], t, strlen(t)) == 0, s NUL-terminated at Len(s)
StrNEq(s, i, t) ==
    /\ i + Len(t) <= Len(s)
    /\ \A k \in 1..Len(t) : s[i + k] = t[k]

\* memset(&hl[i], v, n)
Fill(hl, i, n, v) ==
    [k \in 1..Len(hl) |-> IF k > i /\ k <= i + n THEN v ELSE hl[k]]

\* strstr(hay, needle): offset of the first occurrence, -1 for NULL
RECURSIVE StrStrFrom(_, _, _)
StrStrFrom(hay, needle, k) ==
    IF k + Len(needle) > Len(hay) THEN -1
    ELSE IF StrNEq(hay, k, needle) THEN k
    ELSE StrStrFrom(hay, needle, k + 1)

strstr(hay, needle) == StrStrFrom(hay, needle, 0)

\* strrchr(s, ch): the suffix starting at the last ch, NULL if none
strrchr(s, ch) ==
    LET hits == {k \in 1..Len(s) : s[k] = ch}
    IN IF hits = {} THEN NULL
       ELSE SubSeq(s, CHOOSE k \in hits : \A m \in hits : m <= k, Len(s))

(* ------------------------------------------------------ syntax database *)
c_hl_extensions == << <<46, 99>>, <<46, 104>>, <<46, 99, 112, 112>> >>

c_hl_keywords ==
    << <<115,119,105,116,99,104>>,             \* switch
       <<105,102>>,                            \* if
       <<119,104,105,108,101>>,                \* while
       <<102,111,114>>,                        \* for
       <<98,114,101,97,107>>,                  \* break
       <<99,111,110,116,105,110,117,101>>,     \* continue
       <<114,101,116,117,114,110>>,            \* return
       <<101,108,115,101>>,                    \* else
       <<115,116,114,117,99,116>>,             \* struct
       <<117,110,105,111,110>>,                \* union
       <<116,121,112,101,100,101,102>>,        \* typedef
       <<115,116,97,116,105,99>>,              \* static
       <<101,110,117,109>>,                    \* enum
       <<99,108,97,115,115>>,                  \* class
       <<99,97,115,101>>,                      \* case
       <<105,110,116,124>>,                    \* int|
       <<108,111,110,103,124>>,                \* long|
       <<100,111,117,98,108,101,124>>,         \* double|
       <<102,108,111,97,116,124>>,             \* float|
       <<99,104,97,114,124>>,                  \* char|
       <<117,110,115,105,103,110,101,100,124>>,\* unsigned|
       <<115,105,103,110,101,100,124>>,        \* signed|
       <<118,111,105,100,124>> >>              \* void|

highlight_db ==
    << [file_type |-> "c",
        file_match |-> c_hl_extensions,
        keywords |-> c_hl_keywords,
        single_line_comment_start |-> <<47, 47>>,
        multi_line_comment_start |-> <<47, 42>>,
        multi_line_comment_end |-> <<42, 47>>,
        flags |-> HL_HIGHLIGHT_NUMBERS + HL_HIGHLIGHT_STRINGS] >>

HasFlag(flags, bit) == (flags \div bit) % 2 = 1

is_separator(ch) ==
    \/ isspace(ch)
    \/ ch = NUL
    \/ ch \in {44, 46, 40, 41, 43, 45, 47, 42, 61, 126, 37, 60, 62, 91, 93, 59}

(* ---------------------------------------------------------- highlighter *)
\* seeded fault: the byte after the keyword is not looked at
RECURSIVE KeywordAt_prefix(_, _, _, _)
KeywordAt_prefix(render, i, keywords, j) ==
    IF j > Len(keywords) THEN 0
    ELSE LET kw == keywords[j]
             is_keyword2 == kw[Len(kw)] = BAR
             keyword_len == IF is_keyword2 THEN Len(kw) - 1 ELSE Len(kw)
         IN IF StrNEq(render, i, SubSeq(kw, 1, keyword_len))
            THEN j
            ELSE KeywordAt_prefix(render, i, keywords, j + 1)

\* the while (keywords[j] != NULL) loop: index (from 1) of the first keyword
\* that matches at render[i] and is followed by a separator, 0 if none
RECURSIVE KeywordAt(_, _, _, _)
KeywordAt(render, i, keywords, j) ==
    IF j > Len(keywords) THEN 0
    ELSE LET kw == keywords[j]
             is_keyword2 == kw[Len(kw)] = BAR
             keyword_len == IF is_keyword2 THEN Len(kw) - 1 ELSE Len(kw)
             next == IF i + keyword_len < Len(render)
                     THEN At(render, i + keyword_len) ELSE NUL
         IN IF StrNEq(render, i, SubSeq(kw, 1, keyword_len)) /\ is_separator(next)
            THEN j
            ELSE KeywordAt(render, i, keywords, j + 1)

\* the while (i < row->render_size) loop of editor_update_syntax
RECURSIVE SyntaxScan(_, _, _, _, _, _, _)
SyntaxScan(syn, render, hl, i, prev_sep, in_comment, quote) ==
    IF i >= Len(render) THEN [hl |-> hl, in_comment |-> in_comment]
    ELSE
    LET ch == At(render, i)
        prev_hl == IF i > 0 THEN At(hl, i - 1) ELSE HL_NORMAL
        slcs == syn.single_line_comment_start
        mlcs == syn.multi_line_comment_start
        mlce == syn.multi_line_comment_end
        ml == Len(mlcs) # 0 /\ Len(mlce) # 0 /\ quote = NUL
        strings == HasFlag(syn.flags, HL_HIGHLIGHT_STRINGS)
        numbers == HasFlag(syn.flags, HL_HIGHLIGHT_NUMBERS)
        j == IF prev_sep /\ syn.keywords # <<>>
             THEN KeywordAt(render, i, syn.keywords, 1) ELSE 0
        kw == syn.keywords[j]
        is_keyword2 == kw[Len(kw)] = BAR
        keyword_len == IF is_keyword2 THEN Len(kw) - 1 ELSE Len(kw)
    IN
    IF Len(slcs) # 0 /\ quote = NUL /\ ~in_comment /\ StrNEq(render, i, slcs)
    THEN [hl |-> Fill(hl, i, Len(render) - i, HL_COMMENT),
          in_comment |-> in_comment]
    ELSE IF ml /\ in_comment
    THEN IF StrNEq(render, i, mlce)
         THEN SyntaxScan(syn, render, Fill(hl, i, Len(mlce), HL_MLCOMMENT),
                         i + Len(mlce), TRUE, FALSE, quote)
         ELSE SyntaxScan(syn, render, Fill(hl, i, 1, HL_MLCOMMENT),
                         i + 1, prev_sep, in_comment, quote)
    ELSE IF ml /\ StrNEq(render, i, mlcs)
    THEN SyntaxScan(syn, render, Fill(hl, i, Len(mlcs), HL_MLCOMMENT),
                    i + Len(mlcs), prev_sep, TRUE, quote)
    ELSE IF strings /\ quote # NUL
    THEN IF ch = BACKSLASH /\ i + 1 < Len(render)
         THEN SyntaxScan(syn, render, Fill(hl, i, 2, HL_STRING),
                         i + 2, prev_sep, in_comment, quote)
         ELSE SyntaxScan(syn, render, Fill(hl, i, 1, HL_STRING),
                         i + 1, TRUE, in_comment,
                         IF ch = quote THEN NUL ELSE quote)
    ELSE IF strings /\ (ch = DQUOTE \/ ch = SQUOTE)
    THEN SyntaxScan(syn, render, Fill(hl, i, 1, HL_STRING),
                    i + 1, prev_sep, in_comment, ch)
    ELSE IF numbers /\ isdigit(ch)
                    /\ ((prev_sep \/ prev_hl = HL_NUMBER)
                        \/ (ch = DOT /\ prev_hl = HL_NUMBER))
    THEN SyntaxScan(syn, render, Fill(hl, i, 1, HL_NUMBER),
                    i + 1, FALSE, in_comment, quote)
    ELSE IF j # 0
    THEN SyntaxScan(syn, render,
                    Fill(hl, i, keyword_len,
                         IF is_keyword2 THEN HL_KEYWORD2 ELSE HL_KEYWORD1),
                    i + keyword_len, FALSE, in_comment, quote)
    ELSE SyntaxScan(syn, render, hl, i + 1, is_separator(ch), in_comment, quote)

\* seeded fault: a tab is left out of the render text
RECURSIVE RenderFrom_no_tabs(_, _, _)
RenderFrom_no_tabs(chars, j, out) ==
    IF j >= Len(chars) THEN out
    ELSE IF At(chars, j) = TAB
    THEN RenderFrom_no_tabs(chars, j + 1, out)
    ELSE RenderFrom_no_tabs(chars, j + 1, Append(out, At(chars, j)))

\* the render loop of editor_update_row: tabs expand to the next tab stop
RECURSIVE RenderFrom(_, _, _)
RenderFrom(chars, j, out) ==
    IF j >= Len(chars) THEN out
    ELSE IF At(chars, j) = TAB
    THEN RenderFrom(chars, j + 1,
             out \o [k \in 1..(KILO_TAB_STOP - (Len(out) % KILO_TAB_STOP)) |-> SPACE])
    ELSE RenderFrom(chars, j + 1, Append(out, At(chars, j)))

RECURSIVE editor_update_row(_, _)

\* E is the editor struct, i the row's index; E.num_rows is read as the code
\* reads it (editor_insert_row calls this before it raises num_rows)
editor_update_syntax(E, i) ==
    LET row == At(E.rows, i)
        blank == [k \in 1..Len(row.render) |-> HL_NORMAL]
    IN
    IF E.syntax = NO_SYNTAX
    THEN [E EXCEPT !.rows[i + 1].hl = blank]
    ELSE
    LET seed == i > 0 /\ At(E.rows, i - 1).hl_open_comment
        r == SyntaxScan(highlight_db[E.syntax], row.render, blank, 0, TRUE, seed, NUL)
        changed == row.hl_open_comment # r.in_comment
        E1 == [E EXCEPT !.rows[i + 1].hl = r.hl,
                        !.rows[i + 1].hl_open_comment = r.in_comment]
    IN IF changed /\ i + 1 < E.num_rows
       THEN editor_update_row(E1, i + 1)
       ELSE E1

editor_update_row(E, i) ==
    editor_update_syntax(
        [E EXCEPT !.rows[i + 1].render = RenderFrom(At(E.rows, i).chars, 0, <<>>)], i)

\* the rows editor_update_row(&editor.rows[i]) re-highlights, in the order of
\* the calls: row i, and through "if (changed && row->i + 1 < editor.num_rows)"
\* the rows after it
RECURSIVE Cascade(_, _)
Cascade(E, i) ==
    IF E.syntax = NO_SYNTAX THEN <<i>>
    ELSE
    LET render == RenderFrom(At(E.rows, i).chars, 0, <<>>)
        seed == i > 0 /\ At(E.rows, i - 1).hl_open_comment
        r == SyntaxScan(highlight_db[E.syntax], render,
                        [k \in 1..Len(render) |-> HL_NORMAL], 0, TRUE, seed, NUL)
        changed == At(E.rows, i).hl_open_comment # r.in_comment
    IN IF changed /\ i + 1 < E.num_rows
       THEN <<i>> \o Cascade([E EXCEPT !.rows[i + 1].hl_open_comment = r.in_comment],
                             i + 1)
       ELSE <<i>>

\* the for (file_row ...) loop of editor_select_syntax_highlight
RECURSIVE UpdateSyntaxFrom(_, _)
UpdateSyntaxFrom(E, file_row) ==
    IF file_row >= E.num_rows THEN E
    ELSE UpdateSyntaxFrom(editor_update_syntax(E, file_row), file_row + 1)

\* the loops over highlight_db (index i) and its file_match (index j); the
\* code compares against s->file_match[i], not [j]
RECURSIVE SelectFrom(_, _, _, _)
SelectFrom(E, extension, i, j) ==
    IF i >= Len(highlight_db) THEN E
    ELSE
    LET s == At(highlight_db, i)
    IN IF j >= Len(s.file_match) THEN SelectFrom(E, extension, i + 1, 0)
       ELSE
       LET is_extension == At(At(s.file_match, j), 0) = DOT
           pat == At(s.file_match, i)
       IN IF \/ is_extension /\ extension # NULL /\ extension = pat
             \/ ~is_extension /\ strstr(E.file, pat) # -1
          THEN UpdateSyntaxFrom([E EXCEPT !.syntax = i + 1], 0)
          ELSE SelectFrom(E, extension, i, j + 1)

editor_select_syntax_highlight(E) ==
    LET E0 == [E EXCEPT !.syntax = NO_SYNTAX]
    IN IF E.file = NULL THEN E0
       ELSE SelectFrom(E0, strrchr(E.file, DOT), 0, 0)

(* ------------------------------------------------------------ row buffer *)
\* seeded fault: a tab is KILO_TAB_STOP columns wide wherever it stands
RECURSIVE editor_row_cx_to_rx_from_wide(_, _, _, _)
editor_row_cx_to_rx_from_wide(row, cursor_x, i, render_x) ==
    IF i >= cursor_x THEN render_x
    ELSE editor_row_cx_to_rx_from_wide(row, cursor_x, i + 1,
            IF At(row.chars, i) = TAB
            THEN render_x + KILO_TAB_STOP
            ELSE render_x + 1)

RECURSIVE editor_row_cx_to_rx_from(_, _, _, _)
editor_row_cx_to_rx_from(row, cursor_x, i, render_x) ==
    IF i >= cursor_x THEN render_x
    ELSE editor_row_cx_to_rx_from(row, cursor_x, i + 1,
            IF At(row.chars, i) = TAB
            THEN render_x + (KILO_TAB_STOP - 1) - (render_x % KILO_TAB_STOP) + 1
            ELSE render_x + 1)

editor_row_cx_to_rx(row, cursor_x) == editor_row_cx_to_rx_from(row, cursor_x, 0, 0)

\* seeded fault: the render column is taken for the byte offset
editor_row_rx_to_cx_raw(row, render_x) ==
    IF render_x > Len(row.chars) THEN Len(row.chars) ELSE render_x

RECURSIVE editor_row_rx_to_cx_from(_, _, _, _)
editor_row_rx_to_cx_from(row, render_x, cursor_x, current_render_x) ==
    IF cursor_x >= Len(row.chars) THEN cursor_x
    ELSE
    LET cur == IF At(row.chars, cursor_x) = TAB
               THEN current_render_x + (KILO_TAB_STOP - 1)
                        - (current_render_x % KILO_TAB_STOP) + 1
               ELSE current_render_x + 1
    IN IF cur > render_x THEN cursor_x
       ELSE editor_row_rx_to_cx_from(row, render_x, cursor_x + 1, cur)

editor_row_rx_to_cx(row, render_x) == editor_row_rx_to_cx_from(row, render_x, 0, 0)

InsertAt(s, at, x) == SubSeq(s, 1, at) \o <<x>> \o SubSeq(s, at + 1, Len(s))
RemoveAt(s, at) == SubSeq(s, 1, at) \o SubSeq(s, at + 2, Len(s))

\* seeded fault: a position outside 0..num_rows is clamped, not refused
editor_insert_row_clamped(E, at, s) ==
    LET at1 == IF at < 0 THEN 0 ELSE IF at > E.num_rows THEN E.num_rows ELSE at
        new == [chars |-> s, render |-> <<>>, hl |-> <<>>, hl_open_comment |-> FALSE]
        E1 == editor_update_row([E EXCEPT !.rows = InsertAt(E.rows, at1, new)], at1)
    IN [E1 EXCEPT !.num_rows = E.num_rows + 1, !.dirty = E.dirty + 1]

editor_insert_row(E, at, s) ==
    IF at < 0 \/ at > E.num_rows THEN E
    ELSE
    LET new == [chars |-> s, render |-> <<>>, hl |-> <<>>, hl_open_comment |-> FALSE]
        E1 == editor_update_row([E EXCEPT !.rows = InsertAt(E.rows, at, new)], at)
    IN [E1 EXCEPT !.num_rows = E.num_rows + 1, !.dirty = E.dirty + 1]

editor_del_row(E, at) ==
    IF at < 0 \/ at >= E.num_rows THEN E
    ELSE [E EXCEPT !.rows = RemoveAt(E.rows, at),
                   !.num_rows = E.num_rows - 1,
                   !.dirty = E.dirty + 1]

\* row is the index of the row the C code is handed a pointer to
editor_row_append_string(E, row, s) ==
    LET E1 == editor_update_row(
                  [E EXCEPT !.rows[row + 1].chars = At(E.rows, row).chars \o s], row)
    IN [E1 EXCEPT !.dirty = E1.dirty + 1]

\* seeded fault: the inserted byte is not counted in dirty
editor_row_insert_char_uncounted(E, row, at0, ch) ==
    LET size == Len(At(E.rows, row).chars)
        at == IF at0 < 0 \/ at0 > size THEN size ELSE at0
    IN editor_update_row(
           [E EXCEPT !.rows[row + 1].chars = InsertAt(At(E.rows, row).chars, at, ch)],
           row)

editor_row_insert_char(E, row, at0, ch) ==
    LET size == Len(At(E.rows, row).chars)
        at == IF at0 < 0 \/ at0 > size THEN size ELSE at0
        E1 == editor_update_row(
                  [E EXCEPT !.rows[row + 1].chars = InsertAt(At(E.rows, row).chars, at, ch)],
                  row)
    IN [E1 EXCEPT !.dirty = E1.dirty + 1]

editor_row_del_char(E, row, at) ==
    IF at < 0 \/ at >= Len(At(E.rows, row).chars) THEN E
    ELSE
    LET E1 == editor_update_row(
                  [E EXCEPT !.rows[row + 1].chars = RemoveAt(At(E.rows, row).chars, at)],
                  row)
    IN [E1 EXCEPT !.dirty = E1.dirty + 1]

(* --------------------------------------------------------- editor operations *)
editor_insert_char(E, ch) ==
    LET E1 == IF E.cursor_y = E.num_rows
              THEN editor_insert_row(E, E.num_rows, <<>>) ELSE E
        E2 == editor_row_insert_char(E1, E1.cursor_y, E1.cursor_x, ch)
    IN [E2 EXCEPT !.cursor_x = E.cursor_x + 1]

editor_insert_newline(E) ==
    LET E2 ==
          IF E.cursor_x = 0
          THEN editor_insert_row(E, E.cursor_y, <<>>)
          ELSE
          LET chars == At(E.rows, E.cursor_y).chars
              E1 == editor_insert_row(E, E.cursor_y + 1,
                                      SubSeq(chars, E.cursor_x + 1, Len(chars)))
          IN editor_update_row(
                 [E1 EXCEPT !.rows[E.cursor_y + 1].chars = SubSeq(chars, 1, E.cursor_x)],
                 E.cursor_y)
    IN [E2 EXCEPT !.cursor_y = E.cursor_y + 1, !.cursor_x = 0]

\* seeded fault: joining two rows leaves cursor_x at 0
editor_del_char_join_at_0(E) ==
    IF E.cursor_y = E.num_rows THEN E
    ELSE IF E.cursor_x = 0 /\ E.cursor_y = 0 THEN E
    ELSE IF E.cursor_x > 0
    THEN LET E1 == editor_row_del_char(E, E.cursor_y, E.cursor_x - 1)
         IN [E1 EXCEPT !.cursor_x = E.cursor_x - 1]
    ELSE
    LET E2 == editor_row_append_string(E, E.cursor_y - 1, At(E.rows, E.cursor_y).chars)
        E3 == editor_del_row(E2, E.cursor_y)
    IN [E3 EXCEPT !.cursor_y = E.cursor_y - 1]

editor_del_char(E) ==
    IF E.cursor_y = E.num_rows THEN E
    ELSE IF E.cursor_x = 0 /\ E.cursor_y = 0 THEN E
    ELSE IF E.cursor_x > 0
    THEN LET E1 == editor_row_del_char(E, E.cursor_y, E.cursor_x - 1)
         IN [E1 EXCEPT !.cursor_x = E.cursor_x - 1]
    ELSE
    LET E1 == [E EXCEPT !.cursor_x = Len(At(E.rows, E.cursor_y - 1).chars)]
        E2 == editor_row_append_string(E1, E.cursor_y - 1, At(E.rows, E.cursor_y).chars)
        E3 == editor_del_row(E2, E.cursor_y)
    IN [E3 EXCEPT !.cursor_y = E.cursor_y - 1]

(* ------------------------------------------------------------------ file i/o *)
RECURSIVE editor_rows_to_string_from(_, _, _)
editor_rows_to_string_from(E, i, buf) ==
    IF i >= E.num_rows THEN buf
    ELSE editor_rows_to_string_from(E, i + 1, (buf \o At(E.rows, i).chars) \o <<LF>>)

editor_rows_to_string(E) == editor_rows_to_string_from(E, 0, <<>>)

\* getline(): the bytes up to and including the next LF, or up to the end
GetLineLen(text) ==
    LET nl == {k \in 1..Len(text) : text[k] = LF}
    IN IF nl = {} THEN Len(text) ELSE CHOOSE k \in nl : \A m \in nl : k <= m

\* seeded fault: only the line feed is stripped from a line
StripEol_lf_only(line, line_len) ==
    IF line_len > 0 /\ At(line, line_len - 1) = LF THEN line_len - 1 ELSE line_len

\* while (line_len > 0 && (line[line_len - 1] == '\n' || ... == '\r')) line_len--
RECURSIVE StripEol(_, _)
StripEol(line, line_len) ==
    IF line_len > 0 /\ (At(line, line_len - 1) = LF \/ At(line, line_len - 1) = CR)
    THEN StripEol(line, line_len - 1)
    ELSE line_len

\* the while (getline(...) != -1) loop of editor_open
RECURSIVE ReadLines(_, _)
ReadLines(E, text) ==
    IF text = <<>> THEN E
    ELSE
    LET n == GetLineLen(text)
        line == SubSeq(text, 1, n)
    IN ReadLines(editor_insert_row(E, E.num_rows, SubSeq(line, 1, StripEol(line, n))),
                 SubSeq(text, n + 1, Len(text)))

\* fp != NULL; name is argv[1], text what the stream yields
editor_open(E, name, text) ==
    LET E1 == editor_select_syntax_highlight([E EXCEPT !.file = name])
        E2 == ReadLines(E1, text)
    IN [E2 EXCEPT !.dirty = 0]

(* ------------------------------------------------------------------ view *)
\* seeded fault: the window follows the cursor upwards and leftwards only
editor_scroll_up_only(E) ==
    LET render_x == IF E.cursor_y < E.num_rows
                    THEN editor_row_cx_to_rx(At(E.rows, E.cursor_y), E.cursor_x)
                    ELSE 0
        ro1 == IF E.cursor_y < E.row_offset THEN E.cursor_y ELSE E.row_offset
        co1 == IF render_x < E.col_offset THEN render_x ELSE E.col_offset
    IN [E EXCEPT !.render_x = render_x, !.row_offset = ro1, !.col_offset = co1]

editor_scroll(E) ==
    LET render_x == IF E.cursor_y < E.num_rows
                    THEN editor_row_cx_to_rx(At(E.rows, E.cursor_y), E.cursor_x)
                    ELSE 0
        ro1 == IF E.cursor_y < E.row_offset THEN E.cursor_y ELSE E.row_offset
        ro2 == IF E.cursor_y >= ro1 + E.screen_rows
               THEN E.cursor_y - E.screen_rows + 1 ELSE ro1
        co1 == IF render_x < E.col_offset THEN render_x ELSE E.col_offset
        co2 == IF render_x >= co1 + E.screen_cols
               THEN render_x - E.screen_cols + 1 ELSE co1
    IN [E EXCEPT !.render_x = render_x, !.row_offset = ro2, !.col_offset = co2]

\* the frame's effect on the editor state; the rest of it is terminal output
editor_refresh_screen(E) == editor_scroll(E)

\* the message's format stands for the formatted text
editor_set_status_message(E, fmt) == [E EXCEPT !.statusmsg = fmt]

(* ---------------------------------------------------------------- cursor *)
\* seeded fault: cursor_x is not snapped to the length of the row moved to
editor_move_cursor_unclamped(E, key) ==
    IF key = ARROW_LEFT
    THEN IF E.cursor_x # 0 THEN [E EXCEPT !.cursor_x = E.cursor_x - 1]
         ELSE IF E.cursor_y > 0
         THEN [E EXCEPT !.cursor_y = E.cursor_y - 1,
                        !.cursor_x = Len(At(E.rows, E.cursor_y - 1).chars)]
         ELSE E
    ELSE IF key = ARROW_RIGHT
    THEN IF E.cursor_y >= E.num_rows THEN E
         ELSE IF E.cursor_x < Len(At(E.rows, E.cursor_y).chars)
         THEN [E EXCEPT !.cursor_x = E.cursor_x + 1]
         ELSE IF E.cursor_x = Len(At(E.rows, E.cursor_y).chars)
         THEN [E EXCEPT !.cursor_x = 0, !.cursor_y = E.cursor_y + 1]
         ELSE E
    ELSE IF key = ARROW_UP
    THEN IF E.cursor_y # 0 THEN [E EXCEPT !.cursor_y = E.cursor_y - 1] ELSE E
    ELSE IF key = ARROW_DOWN
    THEN IF E.cursor_y < E.num_rows
         THEN [E EXCEPT !.cursor_y = E.cursor_y + 1] ELSE E
    ELSE E

\* seeded fault: ARROW_LEFT at column 0 stays where it is
editor_move_cursor_no_wrap(E, key) ==
    LET E1 ==
          IF key = ARROW_LEFT
          THEN IF E.cursor_x # 0 THEN [E EXCEPT !.cursor_x = E.cursor_x - 1]
               ELSE E
          ELSE IF key = ARROW_RIGHT
          THEN IF E.cursor_y >= E.num_rows THEN E
               ELSE IF E.cursor_x < Len(At(E.rows, E.cursor_y).chars)
               THEN [E EXCEPT !.cursor_x = E.cursor_x + 1]
               ELSE IF E.cursor_x = Len(At(E.rows, E.cursor_y).chars)
               THEN [E EXCEPT !.cursor_x = 0, !.cursor_y = E.cursor_y + 1]
               ELSE E
          ELSE IF key = ARROW_UP
          THEN IF E.cursor_y # 0 THEN [E EXCEPT !.cursor_y = E.cursor_y - 1] ELSE E
          ELSE IF key = ARROW_DOWN
          THEN IF E.cursor_y < E.num_rows
               THEN [E EXCEPT !.cursor_y = E.cursor_y + 1] ELSE E
          ELSE E
        row_len == IF E1.cursor_y >= E1.num_rows THEN 0
                   ELSE Len(At(E1.rows, E1.cursor_y).chars)
    IN IF E1.cursor_x > row_len THEN [E1 EXCEPT !.cursor_x = row_len] ELSE E1

editor_move_cursor(E, key) ==
    LET E1 ==
          IF key = ARROW_LEFT
          THEN IF E.cursor_x # 0 THEN [E EXCEPT !.cursor_x = E.cursor_x - 1]
               ELSE IF E.cursor_y > 0
               THEN [E EXCEPT !.cursor_y = E.cursor_y - 1,
                              !.cursor_x = Len(At(E.rows, E.cursor_y - 1).chars)]
               ELSE E
          ELSE IF key = ARROW_RIGHT
          THEN IF E.cursor_y >= E.num_rows THEN E
               ELSE IF E.cursor_x < Len(At(E.rows, E.cursor_y).chars)
               THEN [E EXCEPT !.cursor_x = E.cursor_x + 1]
               ELSE IF E.cursor_x = Len(At(E.rows, E.cursor_y).chars)
               THEN [E EXCEPT !.cursor_x = 0, !.cursor_y = E.cursor_y + 1]
               ELSE E
          ELSE IF key = ARROW_UP
          THEN IF E.cursor_y # 0 THEN [E EXCEPT !.cursor_y = E.cursor_y - 1] ELSE E
          ELSE IF key = ARROW_DOWN
          THEN IF E.cursor_y < E.num_rows
               THEN [E EXCEPT !.cursor_y = E.cursor_y + 1] ELSE E
          ELSE E
        row_len == IF E1.cursor_y >= E1.num_rows THEN 0
                   ELSE Len(At(E1.rows, E1.cursor_y).chars)
    IN IF E1.cursor_x > row_len THEN [E1 EXCEPT !.cursor_x = row_len] ELSE E1

RECURSIVE MoveTimes(_, _, _)
MoveTimes(E, key, n) ==
    IF n <= 0 THEN E ELSE MoveTimes(editor_move_cursor(E, key), key, n - 1)

(* ---------------------------------------------------------------- search *)
\* saved_hl == NULL; the line saved with a snapshot is kept beside it
NoSavedHl == [line |-> 0, hl |-> NULL]

\* seeded fault: the scan stops at the last row instead of wrapping to row 0
RECURSIVE FindLoop_no_wrap(_, _, _, _, _)
FindLoop_no_wrap(E, query, i, current0, direction) ==
    IF i >= E.num_rows THEN -1
    ELSE
    LET current1 == IF current0 = -1 THEN E.num_rows - 1 ELSE current0
        current == IF current1 = E.num_rows THEN E.num_rows - 1 ELSE current1
    IN IF strstr(At(E.rows, current).render, query) # -1 THEN current
       ELSE FindLoop_no_wrap(E, query, i + 1, current + direction, direction)

\* the for loop of editor_find_callback: the row of the first match, -1 if none
RECURSIVE FindLoop(_, _, _, _, _)
FindLoop(E, query, i, current0, direction) ==
    IF i >= E.num_rows THEN -1
    ELSE
    LET current1 == IF current0 = -1 THEN E.num_rows - 1 ELSE current0
        current == IF current1 = E.num_rows THEN 0 ELSE current1
    IN IF strstr(At(E.rows, current).render, query) # -1 THEN current
       ELSE FindLoop(E, query, i + 1, current + direction, direction)

\* seeded fault: with no match yet the scan starts one row late
FindKey_late(last_match0, key) ==
    LET last_match == IF key \in {ARROW_RIGHT, ARROW_DOWN, ARROW_LEFT, ARROW_UP}
                      THEN last_match0 ELSE -1
        direction0 == IF key \in {ARROW_RIGHT, ARROW_DOWN} THEN 1 ELSE -1
    IN IF last_match = -1 THEN [last_match |-> 0, direction |-> 1]
       ELSE [last_match |-> last_match, direction |-> direction0]

\* the callback's if-chain on key and "if (last_match == -1) direction = 1":
\* last_match and direction as the scan starts
FindKey(last_match0, key) ==
    LET last_match == IF key \in {ARROW_RIGHT, ARROW_DOWN, ARROW_LEFT, ARROW_UP}
                      THEN last_match0 ELSE -1
        direction0 == IF key \in {ARROW_RIGHT, ARROW_DOWN} THEN 1
                      ELSE IF key \in {ARROW_LEFT, ARROW_UP} THEN -1
                      ELSE 1
    IN [last_match |-> last_match,
        direction |-> IF last_match = -1 THEN 1 ELSE direction0]

\* seeded fault: the tags of the previous match are left in their row
FindUnmark_skip(E, saved) == E

\* "if (saved_hl != NULL)": the saved tags are copied back into their row
FindUnmark(E, saved) ==
    IF saved.hl # NULL
    THEN [E EXCEPT !.rows[saved.line + 1].hl =
             [k \in 1..Len(At(E.rows, saved.line).render) |-> saved.hl[k]]]
    ELSE E

\* S holds the editor and the callback's statics last_match, direction, saved_hl
editor_find_callback(S, query, key) ==
    LET E1 == FindUnmark(S.editor, S.saved_hl)
    IN
    IF key = CR \/ key = ESC
    THEN [editor |-> E1, last_match |-> -1, direction |-> 1, saved_hl |-> NoSavedHl]
    ELSE
    LET last_match == FindKey(S.last_match, key).last_match
        direction == FindKey(S.last_match, key).direction
        current == FindLoop(E1, query, 0, last_match + direction, direction)
    IN
    IF current = -1
    THEN [editor |-> E1, last_match |-> last_match, direction |-> direction,
          saved_hl |-> NoSavedHl]
    ELSE
    LET row == At(E1.rows, current)
        rx == strstr(row.render, query)
    IN [editor |-> [E1 EXCEPT !.cursor_y = current,
                              !.cursor_x = editor_row_rx_to_cx(row, rx),
                              !.row_offset = E1.num_rows,
                              !.rows[current + 1].hl =
                                  Fill(row.hl, rx, Len(query), HL_MATCH)],
        last_match |-> current,
        direction |-> direction,
        saved_hl |-> [line |-> current, hl |-> row.hl]]

(* ------------------------------------------------------------------ save *)
SaveOutcomes == {"written", "open_failed", "truncate_failed", "write_failed"}

\* seeded fault: a failed save clears dirty like a successful one
SaveIO_failure_clean(E, o) ==
    [editor_set_status_message(E, IF o = "written" THEN "bytes written"
                                  ELSE "Can't save")
        EXCEPT !.dirty = 0]

\* editor_save from open() on: o is what the file system answers
SaveIO(E, o) ==
    IF o = "written"
    THEN [editor_set_status_message(E, "bytes written") EXCEPT !.dirty = 0]
    ELSE editor_set_status_message(E, "Can't save")

(* ----------------------------------------------------------------- state *)
VARIABLES
    editor,       \* static struct editor_config editor
    pc,           \* "start" (main, before the loop), "running", "exited", "died"
    mode,         \* where the next key is read: "edit" (editor_process_keypress),
                  \* "save" or "find" (the loop of editor_prompt)
    buf,          \* editor_prompt's buf
    payload,      \* editor_save's buf, built before the prompt
    find_saved,   \* editor_find's save_cursor_x/y, saved_col_offset/row_offset
    last_match,   \* editor_find_callback's static last_match
    direction,    \* editor_find_callback's static direction
    saved_hl,     \* editor_find_callback's static saved_hl (with saved_hl_line)
    quit_times,   \* editor_process_keypress's static quit_times
    cb_key,       \* history: the key editor_find_callback was last called with
                  \* since the last search began (0: not called)
    io,           \* what the last step's save attempt did to the file
    infile,       \* argv[1] and the content of the file it names
    mutated,      \* history: a row's bytes changed since the last load or save
    qpress,       \* history: quit keys the main loop read in a row
    entry,        \* history: the editor struct when the open prompt began
    stdin_next,   \* what read(STDIN_FILENO) finds: a byte, an error, or nothing
    rk_pc,        \* editor_read_key: the read it is at
    rk_c,         \* editor_read_key's c
    rk_seq,       \* editor_read_key's seq, the bytes stored so far
    rk_ret,       \* editor_read_key's return value
    rk_trace      \* history: what each read of the call returned, from the
                  \* first byte on

editorVars == <<editor, pc, mode, buf, payload, find_saved, last_match, direction,
                saved_hl, quit_times, cb_key, io, infile, mutated, qpress, entry>>
decoderVars == <<stdin_next, rk_pc, rk_c, rk_seq, rk_ret, rk_trace>>
vars == <<editor, pc, mode, buf, payload, find_saved, last_match, direction,
          saved_hl, quit_times, cb_key, io, infile, mutated, qpress, entry,
          stdin_next, rk_pc, rk_c, rk_seq, rk_ret, rk_trace>>

init_editor ==
    [cursor_x |-> 0, cursor_y |-> 0, render_x |-> 0,
     row_offset |-> 0, col_offset |-> 0,
     screen_rows |-> ScreenRows, screen_cols |-> ScreenCols,
     num_rows |-> 0, dirty |-> 0, file |-> NULL, statusmsg |-> "",
     syntax |-> NO_SYNTAX, rows |-> <<>>]

NoIO == [kind |-> "none", buf |-> <<>>]
NoFindSaved == [cursor_x |-> 0, cursor_y |-> 0, col_offset |-> 0, row_offset |-> 0]
NoArg == [name |-> NULL, text |-> <<>>]
\* read() with nothing to read before the timeout: it returns 0
NoInput == [nread |-> 0, byte |-> NUL, errno |-> "none"]

\* the bytes of every row, the document's content
Raw(E) == [i \in 1..Len(E.rows) |-> E.rows[i].chars]

\* the bytes the rows hold together
Bytes(E) == Len(editor_rows_to_string(E)) - E.num_rows

\* the model's bounds: a step that grows the row count, the document or the
\* dirty counter is taken only up to the bound
Within(E, E1) ==
    /\ E1.num_rows > E.num_rows => E1.num_rows <= MaxRows
    /\ Bytes(E1) > Bytes(E) => Bytes(E1) <= MaxBytes
    /\ E1.dirty > E.dirty => E1.dirty <= MaxDirty

DecoderIdle ==
    /\ stdin_next = NoInput
    /\ rk_pc = "idle"
    /\ rk_c = NUL
    /\ rk_seq = <<>>
    /\ rk_ret = NUL
    /\ rk_trace = <<>>

EditorStart ==
    /\ editor = init_editor
    /\ pc = "start"
    /\ mode = "edit"
    /\ buf = <<>>
    /\ payload = <<>>
    /\ find_saved = NoFindSaved
    /\ last_match = -1
    /\ direction = 1
    /\ saved_hl = NoSavedHl
    /\ quit_times = KILO_QUIT_TIMES
    /\ cb_key = NUL
    /\ io = NoIO
    /\ mutated = FALSE
    /\ qpress = 0
    /\ entry = init_editor

(* ------------------------------------------------------------------ keys *)
SpecialKeys ==
    {CR, ESC, CTRL_F, CTRL_H, CTRL_L, CTRL_Q, CTRL_S, BACKSPACE,
     ARROW_LEFT, ARROW_RIGHT, ARROW_UP, ARROW_DOWN,
     DEL_KEY, HOME_KEY, END_KEY, PAGE_UP, PAGE_DOWN}

\* the byte typed in the main specification: a digit
TypedBytes == {49}
\* the byte typed at the "Save as" prompt: c
NameBytes == {99}
\* bytes typed in the search specification: f and o
FindBytes == {102, 111}

(* --------------------------------------------------------- main, the loop *)
\* main() up to the first frame: editor_open, the help message, the refresh
Main ==
    /\ pc = "start"
    /\ IF infile.name # NULL /\ infile.text = NULL
       THEN \* fopen fails: die("fopen")
            /\ pc' = "died"
            /\ UNCHANGED editor
       ELSE /\ pc' = "running"
            /\ editor' =
                 editor_refresh_screen(editor_set_status_message(
                     IF infile.name = NULL THEN editor
                     ELSE editor_open(editor, infile.name, infile.text),
                     "HELP"))
    /\ UNCHANGED <<mode, buf, payload, find_saved, last_match, direction, saved_hl,
                   quit_times, cb_key, io, infile, mutated, qpress, entry>>
    /\ UNCHANGED decoderVars

\* seeded fault: the key's handling ends without "quit_times = KILO_QUIT_TIMES"
EndKey_no_reset(E1) ==
    /\ Within(editor, E1)
    /\ editor' = editor_refresh_screen(E1)
    /\ quit_times' = quit_times
    /\ io' = NoIO
    /\ mutated' = (mutated \/ Raw(E1) # Raw(editor))
    /\ qpress' = 0
    /\ UNCHANGED <<pc, mode, buf, payload, find_saved, last_match, direction,
                   saved_hl, cb_key, infile, entry>>
    /\ UNCHANGED decoderVars

\* the end of editor_process_keypress for a key handled in one step, and the
\* frame drawn after it
EndKey(E1) ==
    /\ Within(editor, E1)
    /\ editor' = editor_refresh_screen(E1)
    /\ quit_times' = KILO_QUIT_TIMES
    /\ io' = NoIO
    /\ mutated' = (mutated \/ Raw(E1) # Raw(editor))
    /\ qpress' = 0
    /\ UNCHANGED <<pc, mode, buf, payload, find_saved, last_match, direction,
                   saved_hl, cb_key, infile, entry>>
    /\ UNCHANGED decoderVars

InEdit == pc = "running" /\ mode = "edit"

\* case '\r'
KeyEnter ==
    /\ InEdit
    /\ EndKey(editor_insert_newline(editor))

\* default: any key without a case of its own
KeyChar(typed) ==
    /\ InEdit
    /\ \E ch \in typed \ SpecialKeys :
          EndKey(editor_insert_char(editor, ch))

\* case BACKSPACE, CTRL('h'), DEL_KEY
KeyDelete ==
    /\ InEdit
    /\ \E k \in {BACKSPACE, CTRL_H, DEL_KEY} :
          EndKey(editor_del_char(
                     IF k = DEL_KEY THEN editor_move_cursor(editor, ARROW_RIGHT)
                     ELSE editor))

\* case HOME_KEY
KeyHome ==
    /\ InEdit
    /\ EndKey([editor EXCEPT !.cursor_x = 0])

\* case END_KEY
KeyEnd ==
    /\ InEdit
    /\ EndKey(
              IF editor.cursor_y < editor.num_rows
              THEN [editor EXCEPT !.cursor_x = Len(At(editor.rows, editor.cursor_y).chars)]
              ELSE editor)

\* case PAGE_UP, PAGE_DOWN
KeyPage ==
    /\ InEdit
    /\ \E k \in {PAGE_UP, PAGE_DOWN} :
          LET y == IF k = PAGE_UP THEN editor.row_offset
                   ELSE IF editor.row_offset + editor.screen_rows - 1 > editor.num_rows
                   THEN editor.num_rows
                   ELSE editor.row_offset + editor.screen_rows - 1
          IN EndKey(MoveTimes([editor EXCEPT !.cursor_y = y],
                              IF k = PAGE_UP THEN ARROW_UP ELSE ARROW_DOWN,
                              editor.screen_rows))

\* case ARROW_UP, ARROW_DOWN, ARROW_LEFT, ARROW_RIGHT
KeyArrow ==
    /\ InEdit
    /\ \E k \in {ARROW_UP, ARROW_DOWN, ARROW_LEFT, ARROW_RIGHT} :
          EndKey(editor_move_cursor(editor, k))

\* case CTRL('l'), '\x1b'
KeyIgnored ==
    /\ InEdit
    /\ EndKey(editor)

\* seeded fault: the last warning is skipped, "quit_times > 1"
KeyQuit_early ==
    /\ InEdit
    /\ qpress' = qpress + 1
    /\ io' = NoIO
    /\ IF editor.dirty # 0 /\ quit_times > 1
       THEN /\ editor' = editor_refresh_screen(
                             editor_set_status_message(editor, "WARNING"))
            /\ quit_times' = quit_times - 1
            /\ pc' = pc
       ELSE /\ pc' = "exited"
            /\ UNCHANGED <<editor, quit_times>>
    /\ UNCHANGED <<mode, buf, payload, find_saved, last_match, direction, saved_hl,
                   cb_key, infile, mutated, entry>>
    /\ UNCHANGED decoderVars

\* case CTRL('q')
KeyQuit ==
    /\ InEdit
    /\ qpress' = qpress + 1
    /\ io' = NoIO
    /\ IF editor.dirty # 0 /\ quit_times > 0
       THEN /\ editor' = editor_refresh_screen(
                             editor_set_status_message(editor, "WARNING"))
            /\ quit_times' = quit_times - 1
            /\ pc' = pc
       ELSE /\ pc' = "exited"
            /\ UNCHANGED <<editor, quit_times>>
    /\ UNCHANGED <<mode, buf, payload, find_saved, last_match, direction, saved_hl,
                   cb_key, infile, mutated, entry>>
    /\ UNCHANGED decoderVars

(* ---------------------------------------------------------- editor_prompt *)
\* the branch one iteration of editor_prompt's loop takes for key, with b in buf
PromptBranch(key, b) ==
    IF key \in {DEL_KEY, CTRL_H, BACKSPACE} /\ Len(b) # 0 THEN "pop"
    ELSE IF key = ESC THEN "cancel"
    ELSE IF key = CR /\ Len(b) # 0 THEN "submit"
    ELSE IF ~iscntrl(key) /\ key < 128 THEN "add"
    ELSE "other"

\* buf after that branch
PromptBuf(key, b) ==
    IF PromptBranch(key, b) = "pop" THEN SubSeq(b, 1, Len(b) - 1)
    ELSE IF PromptBranch(key, b) = "add" THEN Append(b, key)
    ELSE b

(* ------------------------------------------------------------ save (keys) *)
\* case CTRL('s'): editor_save, to its end or into the "Save as" prompt
KeySave ==
    /\ InEdit
    /\ qpress' = 0
    /\ IF editor.file = NULL
       THEN /\ mode' = "save"
            /\ buf' = <<>>
            /\ payload' = editor_rows_to_string(editor)
            /\ entry' = editor_set_status_message(editor, "")
            /\ editor' = editor_refresh_screen(
                             editor_set_status_message(editor, "Save as"))
            /\ io' = NoIO
            /\ UNCHANGED <<quit_times, mutated>>
       ELSE \E o \in SaveOutcomes :
            /\ editor' = editor_refresh_screen(SaveIO(editor, o))
            /\ io' = [kind |-> o,
                      buf |-> IF o = "written" THEN editor_rows_to_string(editor)
                              ELSE <<>>]
            /\ mutated' = (o # "written" /\ mutated)
            /\ quit_times' = KILO_QUIT_TIMES
            /\ UNCHANGED <<mode, buf, payload, entry>>
    /\ UNCHANGED <<pc, find_saved, last_match, direction, saved_hl, cb_key, infile>>
    /\ UNCHANGED decoderVars

\* one iteration of editor_prompt("Save as: %s", NULL) and, when it returns,
\* the rest of editor_save and of editor_process_keypress
PromptSave(typed, maxlen) ==
    /\ pc = "running"
    /\ mode = "save"
    /\ \E k \in SpecialKeys \cup typed, o \in SaveOutcomes :
          LET branch == PromptBranch(k, buf)
              buf1 == PromptBuf(k, buf)
              E0 == editor_set_status_message(editor, "")
          IN
          /\ Len(buf1) <= maxlen
          /\ (branch = "submit" \/ o = "written")
          /\ IF branch = "cancel"
             THEN /\ editor' = editor_refresh_screen(
                                   editor_set_status_message(E0, "Save aborted"))
                  /\ io' = [kind |-> "aborted", buf |-> <<>>]
                  /\ mutated' = mutated
                  /\ mode' = "edit"
                  /\ buf' = <<>>
                  /\ payload' = <<>>
                  /\ entry' = init_editor
                  /\ quit_times' = KILO_QUIT_TIMES
             ELSE IF branch = "submit"
             THEN /\ editor' = editor_refresh_screen(
                                   SaveIO(editor_select_syntax_highlight(
                                              [E0 EXCEPT !.file = buf1]), o))
                  /\ io' = [kind |-> o,
                            buf |-> IF o = "written" THEN payload ELSE <<>>]
                  /\ mutated' = (o # "written" /\ mutated)
                  /\ mode' = "edit"
                  /\ buf' = <<>>
                  /\ payload' = <<>>
                  /\ entry' = init_editor
                  /\ quit_times' = KILO_QUIT_TIMES
             ELSE /\ editor' = editor_refresh_screen(
                                   editor_set_status_message(editor, "Save as"))
                  /\ buf' = buf1
                  /\ io' = NoIO
                  /\ UNCHANGED <<mutated, mode, payload, entry, quit_times>>
    /\ UNCHANGED <<pc, find_saved, last_match, direction, saved_hl, cb_key, infile,
                   qpress>>
    /\ UNCHANGED decoderVars

(* ------------------------------------------------------------ find (keys) *)
\* case CTRL('f'): editor_find up to the prompt's first frame
KeyFind ==
    /\ InEdit
    /\ qpress' = 0
    /\ mode' = "find"
    /\ buf' = <<>>
    /\ find_saved' = [cursor_x |-> editor.cursor_x, cursor_y |-> editor.cursor_y,
                      col_offset |-> editor.col_offset,
                      row_offset |-> editor.row_offset]
    /\ entry' = editor_set_status_message(editor, "")
    /\ editor' = editor_refresh_screen(editor_set_status_message(editor, "Search"))
    /\ io' = NoIO
    /\ cb_key' = NUL
    /\ UNCHANGED <<pc, payload, last_match, direction, saved_hl, quit_times, infile,
                   mutated>>
    /\ UNCHANGED decoderVars

\* seeded fault: the viewport is put back, the cursor is not
FindRestore_viewport_only(E, saved) ==
    [E EXCEPT !.col_offset = saved.col_offset, !.row_offset = saved.row_offset]

\* what editor_find does when editor_prompt has returned NULL
FindRestore(E, saved) ==
    [E EXCEPT !.cursor_x = saved.cursor_x, !.cursor_y = saved.cursor_y,
              !.col_offset = saved.col_offset, !.row_offset = saved.row_offset]

\* one iteration of editor_prompt("Search: ...", editor_find_callback) and, when
\* it returns, the rest of editor_find and of editor_process_keypress
PromptFind(typed, maxlen) ==
    /\ pc = "running"
    /\ mode = "find"
    /\ \E k \in SpecialKeys \cup typed :
          LET branch == PromptBranch(k, buf)
              buf1 == PromptBuf(k, buf)
              done == branch \in {"cancel", "submit"}
              S1 == editor_find_callback(
                        [editor |-> IF done THEN editor_set_status_message(editor, "")
                                    ELSE editor,
                         last_match |-> last_match,
                         direction |-> direction,
                         saved_hl |-> saved_hl],
                        buf1, k)
          IN
          /\ Len(buf1) <= maxlen
          /\ cb_key' = k
          /\ last_match' = S1.last_match
          /\ direction' = S1.direction
          /\ saved_hl' = S1.saved_hl
          /\ IF done
             THEN /\ editor' = editor_refresh_screen(
                                   IF branch = "cancel"
                                   THEN FindRestore(S1.editor, find_saved)
                                   ELSE S1.editor)
                  /\ mode' = "edit"
                  /\ buf' = <<>>
                  /\ find_saved' = NoFindSaved
                  /\ entry' = init_editor
                  /\ quit_times' = KILO_QUIT_TIMES
             ELSE /\ editor' = editor_refresh_screen(
                                   editor_set_status_message(S1.editor, "Search"))
                  /\ buf' = buf1
                  /\ UNCHANGED <<mode, find_saved, entry, quit_times>>
    /\ io' = NoIO
    /\ UNCHANGED <<pc, payload, infile, mutated, qpress>>
    /\ UNCHANGED decoderVars

(* ------------------------------------------------------------ key decoder *)
\* the bytes the terminal sends in the decoder's specification
KeyBytes ==
    {ESC, 91, 79, 126, 97, 233} \cup 48..57 \cup {65, 66, 67, 68, 70, 72}

\* the int a char holding byte b converts to: char is signed on some of the
\* targets and unsigned on the others
CharValues(b) == IF b >= 128 THEN {b, b - 256} ELSE {b}

\* a byte or an error reaches the terminal's queue
TtyInput ==
    /\ rk_pc \in {"first", "seq0", "seq1", "seq2"}
    /\ stdin_next = NoInput
    /\ \E r \in {[nread |-> 1, byte |-> b, errno |-> "none"] : b \in KeyBytes}
              \cup {[nread |-> -1, byte |-> NUL, errno |-> e] : e \in {"EAGAIN", "EIO"}} :
          stdin_next' = r
    /\ UNCHANGED <<rk_pc, rk_c, rk_seq, rk_ret, rk_trace>>
    /\ UNCHANGED editorVars

\* editor_read_key is called
rk_call ==
    /\ rk_pc \in {"idle", "ret"}
    /\ rk_pc' = "first"
    /\ rk_c' = NUL
    /\ rk_seq' = <<>>
    /\ rk_ret' = NUL
    /\ rk_trace' = <<>>
    /\ UNCHANGED stdin_next
    /\ UNCHANGED editorVars

\* seeded fault: the two families share one table and Home, End, PageUp,
\* PageDown of the digit family are the only digits
rk_decode_shared(seq) ==
    IF At(seq, 0) \in {91, 79}
    THEN IF At(seq, 1) \in 48..57
         THEN IF Len(seq) = 3 /\ At(seq, 2) = 126
              THEN CASE At(seq, 1) = 49 -> HOME_KEY
                     [] At(seq, 1) = 52 -> END_KEY
                     [] At(seq, 1) = 53 -> PAGE_UP
                     [] At(seq, 1) = 54 -> PAGE_DOWN
                     [] OTHER -> ESC
              ELSE ESC
         ELSE CASE At(seq, 1) = 65 -> ARROW_UP
                [] At(seq, 1) = 66 -> ARROW_DOWN
                [] At(seq, 1) = 68 -> ARROW_LEFT
                [] At(seq, 1) = 67 -> ARROW_RIGHT
                [] At(seq, 1) = 72 -> HOME_KEY
                [] At(seq, 1) = 70 -> END_KEY
                [] OTHER -> ESC
    ELSE ESC

\* the switch statements on seq: the key of a complete sequence
rk_decode(seq) ==
    IF At(seq, 0) = 91
    THEN IF At(seq, 1) \in 48..57
         THEN IF At(seq, 2) = 126
              THEN CASE At(seq, 1) = 49 -> HOME_KEY
                     [] At(seq, 1) = 51 -> DEL_KEY
                     [] At(seq, 1) = 52 -> END_KEY
                     [] At(seq, 1) = 53 -> PAGE_UP
                     [] At(seq, 1) = 54 -> PAGE_DOWN
                     [] At(seq, 1) = 55 -> HOME_KEY
                     [] At(seq, 1) = 56 -> END_KEY
                     [] OTHER -> ESC
              ELSE ESC
         ELSE CASE At(seq, 1) = 65 -> ARROW_UP
                [] At(seq, 1) = 66 -> ARROW_DOWN
                [] At(seq, 1) = 68 -> ARROW_LEFT
                [] At(seq, 1) = 67 -> ARROW_RIGHT
                [] At(seq, 1) = 72 -> HOME_KEY
                [] At(seq, 1) = 70 -> END_KEY
                [] OTHER -> ESC
    ELSE IF At(seq, 0) = 79
    THEN CASE At(seq, 1) = 72 -> HOME_KEY
           [] At(seq, 1) = 70 -> END_KEY
           [] OTHER -> ESC
    ELSE ESC

\* one turn of while ((nread = read(STDIN_FILENO, &c, 1)) != 1)
ReadFirst ==
    /\ rk_pc = "first"
    /\ stdin_next' = NoInput
    /\ IF stdin_next.nread = 1
       THEN /\ rk_trace' = <<stdin_next>>
            /\ \E v \in CharValues(stdin_next.byte) :
                  /\ rk_c' = v
                  /\ IF v = ESC
                     THEN /\ rk_pc' = "seq0"
                          /\ rk_ret' = rk_ret
                     ELSE /\ rk_pc' = "ret"
                          /\ rk_ret' = v
       ELSE IF stdin_next.nread = -1 /\ stdin_next.errno # "EAGAIN"
       THEN /\ rk_pc' = "dead"
            /\ rk_trace' = <<stdin_next>>
            /\ UNCHANGED <<rk_c, rk_ret>>
       ELSE UNCHANGED <<rk_pc, rk_c, rk_ret, rk_trace>>
    /\ UNCHANGED rk_seq
    /\ UNCHANGED editorVars

\* seeded fault: the read of seq[0] is repeated until a byte comes
ReadSeq0_retry ==
    /\ rk_pc = "seq0"
    /\ stdin_next' = NoInput
    /\ IF stdin_next.nread # 1
       THEN UNCHANGED <<rk_pc, rk_seq, rk_trace>>
       ELSE /\ rk_pc' = "seq1"
            /\ rk_seq' = <<stdin_next.byte>>
            /\ rk_trace' = Append(rk_trace, stdin_next)
    /\ UNCHANGED <<rk_c, rk_ret>>
    /\ UNCHANGED editorVars

\* if (read(STDIN_FILENO, &seq[0], 1) != 1) return ('\x1b')
ReadSeq0 ==
    /\ rk_pc = "seq0"
    /\ stdin_next' = NoInput
    /\ rk_trace' = Append(rk_trace, stdin_next)
    /\ IF stdin_next.nread # 1
       THEN /\ rk_pc' = "ret"
            /\ rk_ret' = ESC
            /\ UNCHANGED rk_seq
       ELSE /\ rk_pc' = "seq1"
            /\ rk_seq' = <<stdin_next.byte>>
            /\ UNCHANGED rk_ret
    /\ UNCHANGED rk_c
    /\ UNCHANGED editorVars

\* if (read(STDIN_FILENO, &seq[1], 1) != 1) return ('\x1b'), and the sequences
\* of two bytes
ReadSeq1 ==
    /\ rk_pc = "seq1"
    /\ stdin_next' = NoInput
    /\ rk_trace' = Append(rk_trace, stdin_next)
    /\ IF stdin_next.nread # 1
       THEN /\ rk_pc' = "ret"
            /\ rk_ret' = ESC
            /\ UNCHANGED rk_seq
       ELSE /\ rk_seq' = Append(rk_seq, stdin_next.byte)
            /\ IF At(rk_seq, 0) = 91 /\ stdin_next.byte \in 48..57
               THEN /\ rk_pc' = "seq2"
                    /\ UNCHANGED rk_ret
               ELSE /\ rk_pc' = "ret"
                    /\ rk_ret' = rk_decode(Append(rk_seq, stdin_next.byte))
    /\ UNCHANGED rk_c
    /\ UNCHANGED editorVars

\* if (read(STDIN_FILENO, &seq[2], 1) != 1) return ('\x1b'), and the sequences
\* of three bytes
ReadSeq2 ==
    /\ rk_pc = "seq2"
    /\ stdin_next' = NoInput
    /\ rk_trace' = Append(rk_trace, stdin_next)
    /\ rk_pc' = "ret"
    /\ IF stdin_next.nread # 1
       THEN /\ rk_ret' = ESC
            /\ UNCHANGED rk_seq
       ELSE /\ rk_seq' = Append(rk_seq, stdin_next.byte)
            /\ rk_ret' = rk_decode(Append(rk_seq, stdin_next.byte))
    /\ UNCHANGED rk_c
    /\ UNCHANGED editorVars

(* --------------------------------------------------------- specifications *)
\* the files of the main specification: none, an unreadable one and a C file
Files ==
    {NoArg,
     [name |-> <<97>>, text |-> NULL],
     [name |-> <<97, 46, 99>>, text |-> <<49, LF, TAB>>]}

\* editing, saving and quitting
Init ==
    /\ EditorStart
    /\ infile \in Files
    /\ DecoderIdle

Next ==
    \/ Main
    \/ KeyEnter
    \/ KeyChar(TypedBytes)
    \/ KeyDelete
    \/ KeyHome
    \/ KeyEnd
    \/ KeyPage
    \/ KeyArrow
    \/ KeyIgnored
    \/ KeyQuit
    \/ KeySave
    \/ PromptSave(NameBytes, MaxBuf)

Spec == Init /\ [][Next]_vars

\* every text of at most n bytes over the bytes A
RECURSIVE Texts(_, _)
Texts(A, n) ==
    IF n = 0 THEN {<<>>}
    ELSE Texts(A, n - 1) \cup {Append(t, b) : t \in Texts(A, n - 1), b \in A}

\* loading a file, deleting from it, saving it
LoadBytes == {49, CR, LF}

InitLoad ==
    /\ EditorStart
    /\ infile \in {[name |-> <<97>>, text |-> t] : t \in Texts(LoadBytes, MaxLoadLen)}
    /\ DecoderIdle

NextLoad ==
    \/ Main
    \/ KeyArrow
    \/ KeyDelete
    \/ KeySave

SpecLoad == InitLoad /\ [][NextLoad]_vars

\* searching a loaded file
FindFiles ==
    {[name |-> <<97, 46, 99>>,
      text |-> <<102, 111, 111, LF, 98, 97, 114, LF, 102, 111, 111, LF>>],
     [name |-> <<97, 46, 99>>,
      text |-> <<49, TAB, 111, 102, LF, 102, 111, SPACE, 50, LF>>],
     [name |-> <<97>>, text |-> <<111, 102, 102, LF>>]}

InitFind ==
    /\ EditorStart
    /\ infile \in FindFiles
    /\ DecoderIdle

NextFind ==
    \/ Main
    \/ KeyArrow
    \/ KeyFind
    \/ PromptFind(FindBytes, MaxQuery)

SpecFind == InitFind /\ [][NextFind]_vars

\* the key decoder and the terminal
InitKey ==
    /\ EditorStart
    /\ infile = NoArg
    /\ DecoderIdle

NextKey ==
    \/ TtyInput
    \/ rk_call
    \/ ReadFirst
    \/ ReadSeq0
    \/ ReadSeq1
    \/ ReadSeq2

SpecKey == InitKey /\ [][NextKey]_vars

\* the decoder takes its next read whenever it is at one; the terminal owes
\* nothing
LiveKey ==
    /\ InitKey
    /\ [][NextKey]_vars
    /\ WF_vars(ReadFirst \/ ReadSeq0 \/ ReadSeq1 \/ ReadSeq2)

\* editing, moving, paging and searching in one run
AllFiles ==
    {NoArg,
     [name |-> <<97, 46, 99>>, text |-> <<49, LF, TAB>>]}

InitAll ==
    /\ EditorStart
    /\ infile \in AllFiles
    /\ DecoderIdle

NextAll ==
    \/ Main
    \/ KeyEnter
    \/ KeyChar(TypedBytes)
    \/ KeyDelete
    \/ KeyHome
    \/ KeyEnd
    \/ KeyPage
    \/ KeyArrow
    \/ KeyFind
    \/ PromptFind(TypedBytes, MaxBuf)

SpecAll == InitAll /\ [][NextAll]_vars

\* editing C sources that hold comment markers: "/", "*/", "c"; "/", "/*", "c";
\* "//*", "c"; and "/"
HlFiles ==
    {[name |-> <<97, 46, 99>>, text |-> <<47, LF, 42, 47, LF, 99, LF>>],
     [name |-> <<97, 46, 99>>, text |-> <<47, LF, 47, 42, LF, 99, LF>>],
     [name |-> <<97, 46, 99>>, text |-> <<47, 47, 42, LF, 99, LF>>],
     [name |-> <<97, 46, 99>>, text |-> <<47, LF>>]}

\* the bytes typed into them: / and *
HlBytes == {47, 42}

InitHl ==
    /\ EditorStart
    /\ infile \in HlFiles
    /\ DecoderIdle

NextHl ==
    \/ Main
    \/ KeyArrow
    \/ KeyEnter
    \/ KeyChar(HlBytes)
    \/ KeyDelete

SpecHl == InitHl /\ [][NextHl]_vars

\* highlighting one-row C sources: every text of i, f, double quote and space,
\* and the rows "int x = 1;" and "intx = 1;"
ScanBytes == {105, 102, DQUOTE, SPACE}

ScanFiles ==
    {[name |-> <<97, 46, 99>>, text |-> t] : t \in Texts(ScanBytes, MaxScanLen)}
    \cup {[name |-> <<97, 46, 99>>,
           text |-> <<105, 110, 116, 32, 120, 32, 61, 32, 49, 59>>],
          [name |-> <<97, 46, 99>>,
           text |-> <<105, 110, 116, 120, 32, 61, 32, 49, 59>>]}

InitScan ==
    /\ EditorStart
    /\ infile \in ScanFiles
    /\ DecoderIdle

NextScan ==
    \/ Main
    \/ KeyArrow

SpecScan == InitScan /\ [][NextScan]_vars

\* opening a one-row file under every name of dots, c and h, and as c.cpp
NameChars == {DOT, 99, 104}

NamedFiles ==
    {[name |-> n, text |-> <<49, LF>>] :
        n \in (Texts(NameChars, MaxNameLen) \ {<<>>}) \cup {<<99, 46, 99, 112, 112>>}}

InitName ==
    /\ EditorStart
    /\ infile \in NamedFiles
    /\ DecoderIdle

NextName ==
    \/ Main
    \/ KeyArrow

SpecName == InitName /\ [][NextName]_vars

\* quitting a new file between typing, moving, saving and searching
InitQuit ==
    /\ EditorStart
    /\ infile = [name |-> <<97>>, text |-> <<>>]
    /\ DecoderIdle

NextQuit ==
    \/ Main
    \/ KeyChar(TypedBytes)
    \/ KeyArrow
    \/ KeySave
    \/ KeyFind
    \/ PromptFind(TypedBytes, MaxBuf)
    \/ KeyQuit

SpecQuit == InitQuit /\ [][NextQuit]_vars

\* searching rows with tabs, "1<TAB>o" and "<TAB>o", for spaces and o
TabFiles ==
    {[name |-> <<97>>, text |-> <<49, TAB, 111, LF, TAB, 111, LF>>]}

TabBytes == {SPACE, 111}

InitTab ==
    /\ EditorStart
    /\ infile \in TabFiles
    /\ DecoderIdle

NextTab ==
    \/ Main
    \/ KeyArrow
    \/ KeyFind
    \/ PromptFind(TabBytes, MaxTabQuery)

SpecTab == InitTab /\ [][NextTab]_vars

\* moving in one-row files of tabs and digits
ColBytes == {TAB, 49}

ColFiles == {[name |-> <<97>>, text |-> t] : t \in Texts(ColBytes, MaxColLen)}

InitCol ==
    /\ EditorStart
    /\ infile \in ColFiles
    /\ DecoderIdle

NextCol ==
    \/ Main
    \/ KeyArrow

SpecCol == InitCol /\ [][NextCol]_vars

(* ================================================================ claims *)
(* ---------------------------------------------------------------- C1 *)
\* t without the carriage returns of every run of them that ends at a line
\* feed or at the end of t, from index k on
RECURSIVE DropEolCR(_, _)
DropEolCR(t, k) ==
    IF k > Len(t) THEN <<>>
    ELSE IF /\ t[k] = CR
            /\ \E j \in (k + 1)..(Len(t) + 1) :
                  /\ \A m \in k..(j - 1) : t[m] = CR
                  /\ (j = Len(t) + 1 \/ t[j] = LF)
    THEN DropEolCR(t, k + 1)
    ELSE <<t[k]>> \o DropEolCR(t, k + 1)

\* d, with a line feed added when t is not empty and does not end in one
EndedLike(t, d) == IF t = <<>> \/ t[Len(t)] = LF THEN d ELSE Append(d, LF)

\* the document is what loading the file gave: nothing was edited
Unedited == Raw(editor) = Raw(editor_open(init_editor, infile.name, infile.text))

\* C1, as the code has it: saving a loaded, unedited file writes the file's
\* bytes without the carriage returns that stand right before a line feed or the
\* end of the file (in runs of any length), and with one line feed added when
\* the file is not empty and does not end in one.
C1_RoundTripModuloEol ==
    (io.kind = "written" /\ Unedited)
        => io.buf = EndedLike(infile.text, DropEolCR(infile.text, 1))

\* a file whose line ends in CR LF was loaded and saved unedited
C1_Witness ==
    /\ io.kind = "written"
    /\ Unedited
    /\ infile.text = <<49, CR, LF>>
    /\ io.buf = <<49, LF>>

\* C1 as stated: the bytes written are the file's bytes, but for the one line
\* feed after the last row.
C1_AsStated ==
    (io.kind = "written" /\ Unedited) => io.buf = EndedLike(infile.text, infile.text)

(* ---------------------------------------------------------------- C2 *)
SaveFailures == SaveOutcomes \ {"written"}

DirtyIffMutated == pc # "start" => ((editor.dirty # 0) <=> mutated)

\* C2: once the file is loaded, dirty is nonzero exactly when a row's bytes
\* were changed since the load or the last successful save; it is zero right
\* after the load and right after a successful save, and only a successful save
\* lowers it.
C2_DirtyTracking ==
    /\ []DirtyIffMutated
    /\ [][(pc = "start" /\ pc' = "running") => editor'.dirty = 0]_vars
    /\ [][io'.kind = "written" => editor'.dirty = 0]_vars
    /\ [][editor'.dirty < editor.dirty => io'.kind = "written"]_vars

\* rows were typed into the empty editor and saved: dirty is zero again
C2_Witness ==
    /\ pc = "running"
    /\ infile = NoArg
    /\ io.kind = "written"
    /\ editor.num_rows > 0
    /\ editor.dirty = 0

(* ---------------------------------------------------------------- C3 *)
\* the fields a failed save leaves alone whatever the path
SameDocument(E, E1) ==
    /\ Raw(E1) = Raw(E)
    /\ E1.num_rows = E.num_rows
    /\ E1.cursor_x = E.cursor_x
    /\ E1.cursor_y = E.cursor_y
    /\ E1.dirty = E.dirty
    /\ E1.row_offset = E.row_offset
    /\ E1.col_offset = E.col_offset

\* C3, as the code has it: a save that fails at open, truncate or write leaves
\* every row's bytes, the row count, the cursor, the viewport and dirty as they
\* were, and the editor goes on reading keys in its main loop; when the file
\* already had a name only the status message changes, and when the name was
\* entered at the "Save as" prompt the name stays set (with the syntax selected
\* for it and the rows highlighted again).
C3_SaveFailureKeepsDocument ==
    [][io'.kind \in SaveFailures =>
          /\ SameDocument(editor, editor')
          /\ editor'.statusmsg = "Can't save"
          /\ pc' = "running"
          /\ mode' = "edit"
          /\ editor.file # NULL =>
                 editor' = [editor EXCEPT !.statusmsg = "Can't save"]
          /\ editor.file = NULL =>
                 /\ editor'.file # NULL
                 /\ editor'.render_x = editor.render_x]_vars

\* a named, modified document whose save failed at truncation
C3_Witness ==
    /\ pc = "running"
    /\ mode = "edit"
    /\ io.kind = "truncate_failed"
    /\ editor.file # NULL
    /\ editor.dirty # 0
    /\ editor.statusmsg = "Can't save"

\* C3 as stated: on every failed save only the status message changes.
C3_AsStated ==
    [][io'.kind \in SaveFailures =>
          /\ SameDocument(editor, editor')
          /\ pc' = "running"
          /\ editor' = [editor EXCEPT !.statusmsg = editor'.statusmsg]]_vars

(* ---------------------------------------------------------------- C4 *)
\* after qpress quit keys in a row: with dirty zero the first one has ended the
\* editor; with dirty nonzero the first n have shown the warning and the one
\* after them has ended it
QuitAfter(n) ==
    qpress > 0 =>
        IF editor.dirty = 0
        THEN qpress = 1 /\ pc = "exited"
        ELSE /\ qpress <= n + 1
             /\ qpress <= n => (pc # "exited" /\ editor.statusmsg = "WARNING")
             /\ qpress = n + 1 => pc = "exited"

\* C4, as the code has it: with dirty zero the first Ctrl-Q ends the editor;
\* with dirty nonzero the first KILO_QUIT_TIMES consecutive Ctrl-Q presses only
\* warn and the one after them, the fourth, ends the editor.
C4_QuitProtocol == QuitAfter(KILO_QUIT_TIMES)

\* the editor has exited with unsaved changes, on the fourth Ctrl-Q in a row
C4_Witness ==
    /\ pc = "exited"
    /\ editor.dirty # 0
    /\ qpress = KILO_QUIT_TIMES + 1

\* C4 as stated: with dirty nonzero the KILO_QUIT_TIMES-th consecutive Ctrl-Q
\* ends the editor.
C4_AsStated == QuitAfter(KILO_QUIT_TIMES - 1)

(* ---------------------------------------------------------------- C5 *)
\* C5: the step that ends a search with Escape leaves cursor_x, cursor_y,
\* row_offset and col_offset as they were when the search began, every row's
\* highlight as it was then with no Match tag in it, and the rows' bytes and
\* dirty unchanged.
C5_CancelRestores ==
    [][(mode = "find" /\ mode' = "edit" /\ cb_key' = ESC) =>
          /\ editor'.cursor_x = entry.cursor_x
          /\ editor'.cursor_y = entry.cursor_y
          /\ editor'.row_offset = entry.row_offset
          /\ editor'.col_offset = entry.col_offset
          /\ Len(editor'.rows) = Len(entry.rows)
          /\ \A i \in 1..Len(entry.rows) :
                /\ editor'.rows[i].hl = entry.rows[i].hl
                /\ \A k \in 1..Len(editor'.rows[i].hl) :
                      editor'.rows[i].hl[k] # HL_MATCH
          /\ Raw(editor') = Raw(entry)
          /\ editor'.dirty = entry.dirty]_vars

\* a search begun in the middle of the second of three rows was cancelled
C5_Witness ==
    /\ mode = "edit"
    /\ cb_key = ESC
    /\ editor.num_rows = 3
    /\ editor.cursor_y = 1
    /\ editor.cursor_x = 1
    /\ editor.row_offset = 1

(* ---------------------------------------------------------------- C6 *)
\* q occurs in r
Occurs(q, r) ==
    \E k \in 0..(Len(r) - Len(q)) : \A m \in 1..Len(q) : r[k + m] = q[m]

\* the rows (from 0) whose render text contains q
MatchRows(E, q) == {i \in 0..(E.num_rows - 1) : Occurs(q, At(E.rows, i).render)}

\* the first row of MatchRows after row m in cyclic order, m itself last
NextMatch(E, q, m) ==
    LET d == CHOOSE d \in 1..E.num_rows :
                 /\ (m + d) % E.num_rows \in MatchRows(E, q)
                 /\ \A e \in 1..(d - 1) : (m + e) % E.num_rows \notin MatchRows(E, q)
    IN (m + d) % E.num_rows

FooBarFoo == <<<<102, 111, 111>>, <<98, 97, 114>>, <<102, 111, 111>>>>

\* C6: with a current match, a forward key (ArrowRight, ArrowDown) at the
\* search prompt leaves the query as it is and moves the match, and the cursor,
\* to the nearest row after the current match row in cyclic order whose render
\* text contains the query: the same row only when no other row contains it.
\* With rows "foo", "bar", "foo" and query "foo" row 0 is followed by row 2 and
\* row 2 by row 0.
C6_ForwardWraps ==
    [][(mode = "find" /\ cb_key' \in {ARROW_RIGHT, ARROW_DOWN} /\ last_match # -1) =>
          /\ buf' = buf
          /\ last_match \in MatchRows(editor, buf)
          /\ last_match' = NextMatch(editor, buf, last_match)
          /\ editor'.cursor_y = last_match'
          /\ (MatchRows(editor, buf) = {last_match}) <=> (last_match' = last_match)
          /\ (Raw(editor) = FooBarFoo /\ buf = <<102, 111, 111>>) =>
                 last_match' = 2 - last_match]_vars

\* in "foo", "bar", "foo" a forward key has brought the match for "foo" back
\* to row 0: it came from row 2
C6_Witness ==
    /\ mode = "find"
    /\ Raw(editor) = FooBarFoo
    /\ buf = <<102, 111, 111>>
    /\ cb_key = ARROW_RIGHT
    /\ direction = 1
    /\ last_match = 0
    /\ editor.cursor_y = 0

(* ---------------------------------------------------------------- C7 *)
\* the least and the greatest of a set of rows, -1 for the empty set
FirstOf(R) == IF R = {} THEN -1 ELSE CHOOSE i \in R : \A j \in R : i <= j
LastOf(R) == IF R = {} THEN -1 ELSE CHOOSE i \in R : \A j \in R : j <= i

\* a backward key at the search prompt with no current match selects row, and
\* nothing when row is -1
BackwardFromNoMatch(row) ==
    (mode = "find" /\ cb_key' \in {ARROW_LEFT, ARROW_UP} /\ last_match = -1) =>
        /\ last_match' = row
        /\ row # -1 => editor'.cursor_y = row

\* C7, as the code has it: with no current match a backward key (ArrowLeft,
\* ArrowUp) searches forward from row 0, so the match selected is the first row
\* of the document whose render text contains the query.
C7_BackwardFromNoMatchIsForward == [][BackwardFromNoMatch(FirstOf(MatchRows(editor, buf)))]_vars

\* ArrowUp was the key of a scan that ran forward and selected row 0 of a
\* document of several rows
C7_Witness ==
    /\ mode = "find"
    /\ cb_key = ARROW_UP
    /\ direction = 1
    /\ last_match = 0
    /\ editor.cursor_y = 0
    /\ Cardinality(MatchRows(editor, buf)) > 1

\* C7 as stated: the match selected is the last row that contains the query.
C7_AsStated == [][BackwardFromNoMatch(LastOf(MatchRows(editor, buf)))]_vars

(* ---------------------------------------------------------------- C8 *)
\* the escape sequences that are keys, and their keys
KeyTable ==
    {<<<<ESC, 91, 65>>, ARROW_UP>>,     <<<<ESC, 91, 66>>, ARROW_DOWN>>,
     <<<<ESC, 91, 67>>, ARROW_RIGHT>>,  <<<<ESC, 91, 68>>, ARROW_LEFT>>,
     <<<<ESC, 91, 72>>, HOME_KEY>>,     <<<<ESC, 91, 70>>, END_KEY>>,
     <<<<ESC, 91, 49, 126>>, HOME_KEY>>,   <<<<ESC, 91, 51, 126>>, DEL_KEY>>,
     <<<<ESC, 91, 52, 126>>, END_KEY>>,    <<<<ESC, 91, 53, 126>>, PAGE_UP>>,
     <<<<ESC, 91, 54, 126>>, PAGE_DOWN>>,  <<<<ESC, 91, 55, 126>>, HOME_KEY>>,
     <<<<ESC, 91, 56, 126>>, END_KEY>>,
     <<<<ESC, 79, 72>>, HOME_KEY>>,     <<<<ESC, 79, 70>>, END_KEY>>}

\* the bytes the call has read, up to its first read that gave none
RECURSIVE Received(_)
Received(trace) ==
    IF trace = <<>> \/ Head(trace).nread # 1 THEN <<>>
    ELSE <<Head(trace).byte>> \o Received(Tail(trace))

\* a read of the call failed with an error that is not a timeout
HardError(trace) ==
    \E k \in 1..Len(trace) : trace[k].nread = -1 /\ trace[k].errno # "EAGAIN"

\* C8: a call of the key decoder whose reads met no error but timeouts returns
\* one key: the first byte (as the char it was read into) when it is not ESC,
\* read alone; for an ESC, the key of the table when the bytes read up to the
\* first timeout are one of its sequences, and Escape for everything else, a
\* sequence cut short by a timeout included.
C8_KeyDecoding ==
    (rk_pc = "ret" /\ ~HardError(rk_trace)) =>
        LET bytes == Received(rk_trace)
        IN /\ Len(bytes) >= 1
           /\ IF bytes[1] # ESC
              THEN rk_ret % 256 = bytes[1] /\ Len(rk_trace) = 1
              ELSE IF \E p \in KeyTable : p[1] = bytes
              THEN \A p \in KeyTable : p[1] = bytes => rk_ret = p[2]
              ELSE rk_ret = ESC

\* ESC [ 5 ~ was read in four reads and PageUp returned
C8_Witness ==
    /\ rk_pc = "ret"
    /\ Received(rk_trace) = <<ESC, 91, 53, 126>>
    /\ rk_ret = PAGE_UP

(* ---------------------------------------------------------------- C9 *)
\* C9, as the code has it: the call makes at most three reads after the one
\* that gave it its first byte, and once it has an ESC it returns whether or
\* not another byte ever comes; before its first byte it polls, each read
\* bounded, for as long as no byte comes.
C9_ReturnsOnceAByteCame ==
    /\ [](Len(rk_trace) <= 4)
    /\ (rk_pc \in {"seq0", "seq1", "seq2"}) ~> (rk_pc = "ret")

\* an ESC was followed by a timeout and returned as Escape
C9_Witness ==
    /\ rk_pc = "ret"
    /\ rk_ret = ESC
    /\ Len(rk_trace) = 2
    /\ rk_trace[2] = NoInput

\* C9 as stated: every call returns or dies, whether or not a byte ever
\* arrives.
C9_AsStated == (rk_pc = "first") ~> (rk_pc \in {"ret", "dead"})

(* --------------------------------------------------------------- C10 *)
\* C10 as stated: when a read of the call has failed with an error that is not
\* a timeout, at whatever byte, the process has died and no key is returned.
C10_AsStated == HardError(rk_trace) => (rk_pc = "dead" /\ rk_ret = NUL)

(* --------------------------------------------------------------- C11 *)
\* C11: after every key event (editing, moving, paging, searching) cursor_y is
\* between 0 and num_rows, cursor_x is between 0 and the size of row cursor_y
\* when that row exists, and cursor_x is 0 on the row past the last one.
C11_CursorBounds ==
    /\ 0 <= editor.cursor_y /\ editor.cursor_y <= editor.num_rows
    /\ editor.cursor_y < editor.num_rows =>
          /\ 0 <= editor.cursor_x
          /\ editor.cursor_x <= Len(At(editor.rows, editor.cursor_y).chars)
    /\ editor.cursor_y = editor.num_rows => editor.cursor_x = 0

\* a row was joined away by DEL after a search had moved the cursor, and the
\* cursor stands at the end of the one row left
C11_Witness ==
    /\ InEdit
    /\ cb_key = CR
    /\ mutated
    /\ infile.name # NULL
    /\ editor.num_rows = 1
    /\ editor.cursor_y = 0
    /\ editor.cursor_x = Len(At(editor.rows, 0).chars)
    /\ editor.cursor_x = 2

(* --------------------------------------------------------------- C12 *)
\* C12: in every frame, after editor_scroll has run, the cursor's row is one of
\* the screen_rows rows from row_offset on and its render column is one of the
\* screen_cols columns from col_offset on, and neither offset is negative.
C12_Viewport ==
    pc = "running" =>
        /\ editor.row_offset >= 0
        /\ editor.col_offset >= 0
        /\ editor.row_offset <= editor.cursor_y
        /\ editor.cursor_y < editor.row_offset + editor.screen_rows
        /\ editor.col_offset <= editor.render_x
        /\ editor.render_x < editor.col_offset + editor.screen_cols

\* a search match found after a row was deleted: the callback had set
\* row_offset to num_rows, and the frame shows the matched row
C12_Witness ==
    /\ pc = "running"
    /\ mode = "find"
    /\ saved_hl.hl # NULL
    /\ mutated
    /\ infile.name # NULL
    /\ editor.num_rows = 1
    /\ editor.cursor_y = 0
    /\ editor.row_offset = 0

(* --------------------------------------------------------------- C13 *)
\* whether a pass over rows 0..i from outside any comment ends row i inside an
\* unterminated multi-line comment
RECURSIVE OpenAfter(_, _)
OpenAfter(E, i) ==
    IF i < 0 THEN FALSE
    ELSE SyntaxScan(highlight_db[E.syntax], At(E.rows, i).render,
                    [k \in 1..Len(At(E.rows, i).render) |-> HL_NORMAL],
                    0, TRUE, OpenAfter(E, i - 1), NUL).in_comment

\* the tags of row i in that pass
PassHl(E, i) ==
    SyntaxScan(highlight_db[E.syntax], At(E.rows, i).render,
               [k \in 1..Len(At(E.rows, i).render) |-> HL_NORMAL],
               0, TRUE, OpenAfter(E, i - 1), NUL).hl

\* C13 as stated: under the C syntax, after a load and after every edit, the
\* bytes tagged as multi-line comment are those from an opening marker through
\* the next closing marker, across the rows in between, and a row after the
\* closing marker is tagged as a row that starts outside any comment.
C13_AsStated ==
    (pc = "running" /\ editor.syntax # NO_SYNTAX) =>
        \A i \in 0..(editor.num_rows - 1) :
            /\ \A k \in 1..Len(At(editor.rows, i).render) :
                  PassHl(editor, i)[k] = HL_MLCOMMENT
                      => At(editor.rows, i).hl[k] = HL_MLCOMMENT
            /\ (/\ ~OpenAfter(editor, i - 1)
                /\ \E j \in 0..(i - 1) :
                      \E k \in 1..Len(At(editor.rows, j).render) :
                          PassHl(editor, j)[k] = HL_MLCOMMENT)
                   => At(editor.rows, i).hl = PassHl(editor, i)

(* --------------------------------------------------------------- C14 *)
\* whitespace, NUL or one of ,.()+-/*=~%<>[];
SepByte(b) ==
    b \in {SPACE, 9, 10, 11, 12, 13, NUL}
          \cup {44, 46, 40, 41, 43, 45, 47, 42, 61, 126, 37, 60, 62, 91, 93, 59}

KeywordTag(v) == v \in {HL_KEYWORD1, HL_KEYWORD2}

\* position k (from 1) is the first, the last byte of a span of keyword tags
SpanFirst(row, k) ==
    KeywordTag(row.hl[k]) /\ (k = 1 \/ ~KeywordTag(row.hl[k - 1]))
SpanLast(row, k) ==
    KeywordTag(row.hl[k]) /\ (k = Len(row.hl) \/ ~KeywordTag(row.hl[k + 1]))

\* the examples of the claim: "int x = 1;" tags int, "intx = 1;" tags nothing
KeywordExamples(row) ==
    /\ row.render = <<105, 110, 116, 32, 120, 32, 61, 32, 49, 59>> =>
          \A k \in 1..Len(row.hl) : KeywordTag(row.hl[k]) <=> k <= 3
    /\ row.render = <<105, 110, 116, 120, 32, 61, 32, 49, 59>> =>
          \A k \in 1..Len(row.hl) : ~KeywordTag(row.hl[k])

\* C14, amended: under the C syntax a span tagged as a keyword starts the row or
\* follows a separator byte or the closing quote of a string, and ends the row
\* or is followed by a separator byte; "int x = 1;" tags int and "intx = 1;"
\* tags no keyword.
C14_KeywordBoundary ==
    (pc = "running" /\ editor.syntax # NO_SYNTAX) =>
        \A i \in 1..Len(editor.rows) :
            LET row == editor.rows[i]
            IN /\ KeywordExamples(row)
               /\ \A k \in 1..Len(row.hl) :
                     /\ SpanFirst(row, k) =>
                           \/ k = 1
                           \/ SepByte(row.render[k - 1])
                           \/ /\ row.render[k - 1] \in {DQUOTE, SQUOTE}
                              /\ row.hl[k - 1] = HL_STRING
                     /\ SpanLast(row, k) =>
                           \/ k = Len(row.hl)
                           \/ SepByte(row.render[k + 1])

\* the row ""if is loaded and its if is tagged as a keyword
C14_Witness ==
    /\ pc = "running"
    /\ editor.syntax # NO_SYNTAX
    /\ editor.num_rows = 1
    /\ At(editor.rows, 0).render = <<DQUOTE, DQUOTE, 105, 102>>
    /\ At(editor.rows, 0).hl = <<HL_STRING, HL_STRING, HL_KEYWORD1, HL_KEYWORD1>>

\* C14 as stated: a span tagged as a keyword starts the row or follows a
\* separator byte, and ends the row or is followed by a separator byte.
C14_AsStated ==
    (pc = "running" /\ editor.syntax # NO_SYNTAX) =>
        \A i \in 1..Len(editor.rows) :
            LET row == editor.rows[i]
            IN /\ KeywordExamples(row)
               /\ \A k \in 1..Len(row.hl) :
                     /\ SpanFirst(row, k) =>
                           (k = 1 \/ SepByte(row.render[k - 1]))
                     /\ SpanLast(row, k) =>
                           (k = Len(row.hl) \/ SepByte(row.render[k + 1]))

(* --------------------------------------------------------------- C15 *)
\* the editor after the Enter key and its frame, then the Backspace key and its
\* frame
EnterThenBackspace(E) ==
    editor_refresh_screen(editor_del_char(
        editor_refresh_screen(editor_insert_newline(E))))

\* C15: with the cursor at (x, y) on an existing row, Enter followed by
\* Backspace leaves every row's bytes, the row count and the cursor as they
\* were.
C15_SplitThenJoin ==
    (InEdit /\ editor.cursor_y < editor.num_rows) =>
        LET E2 == EnterThenBackspace(editor)
        IN /\ Raw(E2) = Raw(editor)
           /\ E2.num_rows = editor.num_rows
           /\ E2.cursor_x = editor.cursor_x
           /\ E2.cursor_y = editor.cursor_y

\* the cursor stands inside a row of two rows: Enter splits the row in two
\* non-empty parts, Backspace joins them
C15_Witness ==
    /\ InEdit
    /\ editor.num_rows = 2
    /\ editor.cursor_x = 1
    /\ Len(At(editor.rows, editor.cursor_y).chars) = 2
    /\ editor_insert_newline(editor).num_rows = 3
    /\ Raw(editor_insert_newline(editor)) # Raw(editor)
    /\ Raw(EnterThenBackspace(editor)) = Raw(editor)

(* --------------------------------------------------------------- C16 *)
\* the extension of a file name: the part from its last dot on, <<>> without one
Extension(name) ==
    LET dots == {k \in 1..Len(name) : name[k] = DOT}
    IN IF dots = {} THEN <<>>
       ELSE SubSeq(name, CHOOSE k \in dots : \A m \in dots : m <= k, Len(name))

\* C16 as stated: a file name whose extension is .c, .h or .cpp selects the C
\* syntax, and every other file name leaves the syntax absent.
C16_AsStated ==
    (pc = "running" /\ editor.file # NULL) =>
        IF Extension(editor.file) \in {<<46, 99>>, <<46, 104>>, <<46, 99, 112, 112>>}
        THEN editor.syntax = 1
        ELSE editor.syntax = NO_SYNTAX

(* --------------------------------------------------------------- C17 *)
\* the length of row y, 0 for the row past the last one
RowLen(E, y) == IF y < E.num_rows THEN Len(At(E.rows, y).chars) ELSE 0

Min(a, b) == IF a <= b THEN a ELSE b

\* the editor after an arrow key and its frame
ArrowKey(E, key) == editor_refresh_screen(editor_move_cursor(E, key))

\* what the claim says of each arrow key pressed at (x, y)
ArrowLeftMoves(E, E1) ==
    IF E.cursor_x = 0 /\ E.cursor_y > 0
    THEN E1.cursor_y = E.cursor_y - 1 /\ E1.cursor_x = RowLen(E, E.cursor_y - 1)
    ELSE IF E.cursor_x = 0
    THEN E1.cursor_y = E.cursor_y /\ E1.cursor_x = E.cursor_x
    ELSE E1.cursor_y = E.cursor_y /\ E1.cursor_x = E.cursor_x - 1

ArrowRightMoves(E, E1) ==
    IF E.cursor_y >= E.num_rows
    THEN E1.cursor_y = E.cursor_y /\ E1.cursor_x = E.cursor_x
    ELSE IF E.cursor_x = RowLen(E, E.cursor_y)
    THEN E1.cursor_y = E.cursor_y + 1 /\ E1.cursor_x = 0
    ELSE E1.cursor_y = E.cursor_y /\ E1.cursor_x = E.cursor_x + 1

ArrowUpMoves(E, E1) ==
    /\ E1.cursor_y \in {E.cursor_y - 1, E.cursor_y}
    /\ E1.cursor_x = Min(E.cursor_x, RowLen(E, E1.cursor_y))

ArrowDownMoves(E, E1) ==
    /\ E1.cursor_y \in {E.cursor_y, E.cursor_y + 1}
    /\ E1.cursor_x = Min(E.cursor_x, RowLen(E, E1.cursor_y))

\* C17: ArrowLeft at column 0 of a row below the first goes to the end of the
\* row above, ArrowRight at the end of an existing row goes to column 0 of the
\* row below, ArrowLeft at (0, 0) and ArrowRight past the last row stay, any
\* other horizontal arrow moves cursor_x by one; ArrowUp and ArrowDown move
\* cursor_y by at most one and clamp cursor_x to the new row's length; no arrow
\* changes a row or dirty.
C17_ArrowKeys ==
    InEdit =>
        /\ ArrowLeftMoves(editor, ArrowKey(editor, ARROW_LEFT))
        /\ ArrowRightMoves(editor, ArrowKey(editor, ARROW_RIGHT))
        /\ ArrowUpMoves(editor, ArrowKey(editor, ARROW_UP))
        /\ ArrowDownMoves(editor, ArrowKey(editor, ARROW_DOWN))
        /\ \A k \in {ARROW_LEFT, ARROW_RIGHT, ARROW_UP, ARROW_DOWN} :
              /\ ArrowKey(editor, k).rows = editor.rows
              /\ ArrowKey(editor, k).num_rows = editor.num_rows
              /\ ArrowKey(editor, k).dirty = editor.dirty

\* the cursor is at column 0 of the second row, below a row that is not empty:
\* ArrowLeft goes to the end of that row, ArrowUp to its start
C17_Witness ==
    /\ InEdit
    /\ editor.cursor_x = 0
    /\ editor.cursor_y = 1
    /\ editor.num_rows = 2
    /\ RowLen(editor, 0) > 0
    /\ ArrowKey(editor, ARROW_LEFT).cursor_y = 0
    /\ ArrowKey(editor, ARROW_LEFT).cursor_x = RowLen(editor, 0)
    /\ ArrowKey(editor, ARROW_UP).cursor_x = 0

(* --------------------------------------------------------------- C18 *)
\* row i is settled: its tags and its flag are what the highlighter gives on
\* its render text, seeded with the flag of the row above
Settled(E, i) ==
    LET row == At(E.rows, i)
        r == SyntaxScan(highlight_db[E.syntax], row.render,
                        [k \in 1..Len(row.render) |-> HL_NORMAL], 0, TRUE,
                        i > 0 /\ At(E.rows, i - 1).hl_open_comment, NUL)
    IN row.hl = r.hl /\ row.hl_open_comment = r.in_comment

\* C18 as stated: under the C syntax, after every editing key (a byte typed,
\* Enter, Backspace, DEL) every row is settled.
C18_AsStated ==
    (pc = "running" /\ editor.syntax # NO_SYNTAX) =>
        \A i \in 0..(editor.num_rows - 1) : Settled(editor, i)

(* --------------------------------------------------------------- C19 *)
\* C19: a key other than the quit key, handled by the main loop, resets the
\* quit countdown to KILO_QUIT_TIMES, so the countdown only counts the quit keys
\* pressed since the last other key, and the editor exits with unsaved changes
\* only after a run of quit keys that no other key interrupted.
C19_CountdownReset ==
    /\ (InEdit /\ qpress = 0) => quit_times = KILO_QUIT_TIMES
    /\ (InEdit /\ editor.dirty # 0) =>
          quit_times = KILO_QUIT_TIMES - Min(qpress, KILO_QUIT_TIMES)
    /\ (pc = "exited" /\ editor.dirty # 0) => qpress > KILO_QUIT_TIMES

\* a warning was shown and is still in the status bar, then another key was
\* handled: the countdown is back at its initial value
C19_Witness ==
    /\ InEdit
    /\ editor.dirty # 0
    /\ editor.statusmsg = "WARNING"
    /\ qpress = 0
    /\ quit_times = KILO_QUIT_TIMES

(* --------------------------------------------------------------- C20 *)
\* the rows of E that hold a Match tag
MatchTagged(E) ==
    {i \in 0..(E.num_rows - 1) :
        \E k \in 1..Len(At(E.rows, i).hl) : At(E.rows, i).hl[k] = HL_MATCH}

\* the tags row i has outside a search
Ordinary(E, i) ==
    IF E.syntax = NO_SYNTAX
    THEN [k \in 1..Len(At(E.rows, i).render) |-> HL_NORMAL]
    ELSE PassHl(E, i)

\* the positions (from 1) of the first occurrence of q in r, q occurring in r
FirstSpan(q, r) ==
    LET starts == {p \in 0..(Len(r) - Len(q)) : \A k \in 1..Len(q) : r[p + k] = q[k]}
        first == CHOOSE p \in starts : \A m \in starts : p <= m
    IN (first + 1)..(first + Len(q))

\* C20: during a search at most one row holds Match tags, the row of the
\* current match, and they cover exactly the matched span; every other tag of
\* every row is the ordinary one; once the search has ended no row holds a
\* Match tag.
C20_MatchTags ==
    /\ (pc = "running" /\ mode = "find") =>
          /\ Cardinality(MatchTagged(editor)) <= 1
          /\ (saved_hl.hl # NULL /\ buf # <<>>) =>
                MatchTagged(editor) = {last_match}
          /\ \A i \in 0..(editor.num_rows - 1) :
                LET row == At(editor.rows, i)
                    own == Ordinary(editor, i)
                IN IF i \in MatchTagged(editor)
                   THEN /\ i = last_match
                        /\ i = editor.cursor_y
                        /\ Occurs(buf, row.render)
                        /\ row.hl = [k \in 1..Len(own) |->
                                        IF k \in FirstSpan(buf, row.render)
                                        THEN HL_MATCH ELSE own[k]]
                   ELSE row.hl = own
    /\ (pc = "running" /\ mode # "find") => MatchTagged(editor) = {}

\* rows foo, bar, foo, query foo, the second match: row 2 holds the tags,
\* row 0, which held them before, has its own tags again
C20_Witness ==
    /\ pc = "running"
    /\ mode = "find"
    /\ buf = <<102, 111, 111>>
    /\ cb_key = ARROW_DOWN
    /\ last_match = 2
    /\ At(editor.rows, 2).hl = <<HL_MATCH, HL_MATCH, HL_MATCH>>
    /\ At(editor.rows, 0).hl = <<HL_NORMAL, HL_NORMAL, HL_NORMAL>>

(* --------------------------------------------------------------- C21 *)
\* the render column (from 0) where the first occurrence of q in r starts
FirstStart(q, r) ==
    LET starts == {p \in 0..(Len(r) - Len(q)) : \A k \in 1..Len(q) : r[p + k] = q[k]}
    IN CHOOSE p \in starts : \A m \in starts : p <= m

\* the render column of raw offset cx of a row, written from the tab rule: a
\* tab ends at the next multiple of 8, any other byte takes one column
RECURSIVE ColumnOf(_, _)
ColumnOf(chars, cx) ==
    IF cx = 0 THEN 0
    ELSE LET before == ColumnOf(chars, cx - 1)
         IN IF chars[cx] = TAB THEN before + 8 - (before % 8) ELSE before + 1

\* the last callback of the open search found a match
MatchFound == pc = "running" /\ mode = "find" /\ saved_hl.hl # NULL

\* C21, amended: after a search step finds a match, cursor_y is the matched
\* row and cursor_x is the offset of the raw byte whose render columns hold the
\* column where the first occurrence of the query starts: the byte's own first
\* column when the match starts at it, the tab's first column when the match
\* starts inside a tab's expansion.
C21_SearchCursor ==
    MatchFound =>
        LET row == At(editor.rows, editor.cursor_y)
            rx == FirstStart(buf, row.render)
        IN /\ editor.cursor_y = last_match
           /\ Occurs(buf, row.render)
           /\ editor.cursor_x <= Len(row.chars)
           /\ ColumnOf(row.chars, editor.cursor_x) <= rx
           /\ editor.cursor_x < Len(row.chars) =>
                 rx < ColumnOf(row.chars, editor.cursor_x + 1)
           /\ editor.cursor_x = Len(row.chars) => rx = Len(row.render)

\* the query " o" is found in row "1<TAB>o" at render column 7, inside the
\* tab's columns 1..7: the cursor is on the tab, raw offset 1, render column 1
C21_Witness ==
    /\ MatchFound
    /\ buf = <<SPACE, 111>>
    /\ editor.cursor_y = 0
    /\ editor.cursor_x = 1
    /\ FirstStart(buf, At(editor.rows, 0).render) = 7

\* C21 as stated: after a search step finds a match, cursor_y is the matched
\* row and the render column of cursor_x is the column where the first
\* occurrence of the query starts.
C21_AsStated ==
    MatchFound =>
        LET row == At(editor.rows, editor.cursor_y)
        IN /\ editor.cursor_y = last_match
           /\ Occurs(buf, row.render)
           /\ ColumnOf(row.chars, editor.cursor_x) = FirstStart(buf, row.render)

(* --------------------------------------------------------------- C22 *)
\* the editor after the DEL key and its frame
DeleteKey(E) ==
    editor_refresh_screen(editor_del_char(editor_move_cursor(E, ARROW_RIGHT)))

\* the rows' bytes the claim gives for the DEL key at (x, y)
AfterDelete(E) ==
    LET x == E.cursor_x
        y == E.cursor_y
        rows == Raw(E)
    IN IF y < E.num_rows /\ x < RowLen(E, y)
       THEN [rows EXCEPT ![y + 1] = RemoveAt(rows[y + 1], x)]
       ELSE IF y + 1 < E.num_rows
       THEN [i \in 1..(E.num_rows - 1) |->
                IF i < y + 1 THEN rows[i]
                ELSE IF i = y + 1 THEN rows[i] \o rows[i + 1]
                ELSE rows[i + 1]]
       ELSE rows

\* C22 as stated: the DEL key removes the byte at the cursor, or joins the next
\* row onto the current one at the end of a row that has a successor, or
\* changes nothing when no byte or row follows the cursor, and in every case
\* the cursor is where it was.
C22_AsStated ==
    InEdit =>
        /\ Raw(DeleteKey(editor)) = AfterDelete(editor)
        /\ DeleteKey(editor).cursor_x = editor.cursor_x
        /\ DeleteKey(editor).cursor_y = editor.cursor_y

(* --------------------------------------------------------------- C23 *)
\* the texts editor_insert_row is handed: empty, one byte, one tab
InsertTexts == {<<>>, <<49>>, <<TAB>>}

\* the positions it is handed: from two before the first row to two after the
\* position past the last row
InsertPositions(E) == (0 - 2)..(E.num_rows + 2)

\* rows with the text s as the new row at position at (from 0)
WithRowAt(rows, at, s) ==
    [i \in 1..(Len(rows) + 1) |->
        IF i <= at THEN rows[i] ELSE IF i = at + 1 THEN s ELSE rows[i - 1]]

\* C23, amended: for at in 0..num_rows, editor_insert_row(at, text) inserts one
\* new row holding text at position at, shifts the later rows down by one,
\* raises num_rows by one and increments dirty; for at < 0 and for
\* at > num_rows it changes nothing.
C23_InsertRow ==
    pc = "running" =>
        \A at \in InsertPositions(editor) : \A s \in InsertTexts :
            LET E1 == editor_insert_row(editor, at, s)
            IN IF 0 <= at /\ at <= editor.num_rows
               THEN /\ Raw(E1) = WithRowAt(Raw(editor), at, s)
                    /\ E1.num_rows = editor.num_rows + 1
                    /\ E1.dirty = editor.dirty + 1
               ELSE E1 = editor

\* a document of two rows: a row handed in for position 3 is refused, one
\* handed in for position 2 becomes the last row
C23_Witness ==
    /\ InEdit
    /\ editor.num_rows = 2
    /\ editor_insert_row(editor, 3, <<49>>) = editor
    /\ editor_insert_row(editor, 0 - 1, <<49>>) = editor
    /\ editor_insert_row(editor, 2, <<49>>).num_rows = 3

\* C23 as stated: for every at, editor_insert_row(at, text) inserts one new row
\* holding text at position at clamped into 0..num_rows, shifts the later rows
\* down by one, raises num_rows by one and increments dirty.
C23_AsStated ==
    pc = "running" =>
        \A at \in InsertPositions(editor) : \A s \in InsertTexts :
            LET E1 == editor_insert_row(editor, at, s)
                clamped == IF at < 0 THEN 0
                           ELSE IF at > editor.num_rows THEN editor.num_rows
                           ELSE at
            IN /\ Raw(E1) = WithRowAt(Raw(editor), clamped, s)
               /\ E1.num_rows = editor.num_rows + 1
               /\ E1.dirty = editor.dirty + 1

(* --------------------------------------------------------------- C24 *)
OnlyTabs(chars) == \A k \in 1..Len(chars) : chars[k] = TAB

\* C24: for every row and every raw offset cx in 0..size, rx_to_cx(cx_to_rx(cx))
\* is cx, and cx_to_rx(size) is the length of the render text; in a row of tabs
\* only the render text is 8 columns a tab and every cx_to_rx(cx) is a multiple
\* of 8.  The frame's render_x is cx_to_rx of the cursor.
C24_ColumnRoundTrip ==
    pc = "running" =>
        /\ \A i \in 1..Len(editor.rows) :
              LET row == editor.rows[i]
                  size == Len(row.chars)
              IN /\ \A cx \in 0..size :
                        editor_row_rx_to_cx(row, editor_row_cx_to_rx(row, cx)) = cx
                 /\ editor_row_cx_to_rx(row, size) = Len(row.render)
                 /\ OnlyTabs(row.chars) =>
                       /\ Len(row.render) = 8 * size
                       /\ \A cx \in 0..size : editor_row_cx_to_rx(row, cx) % 8 = 0
        /\ editor.cursor_y < editor.num_rows =>
              editor_row_rx_to_cx(At(editor.rows, editor.cursor_y), editor.render_x)
                  = editor.cursor_x

\* the cursor stands after the tab of the row "1<TAB>1", at render column 8
C24_Witness ==
    /\ pc = "running"
    /\ editor.num_rows = 1
    /\ At(editor.rows, 0).chars = <<49, TAB, 49>>
    /\ Len(At(editor.rows, 0).render) = 9
    /\ editor.cursor_x = 2
    /\ editor.render_x = 8

(* --------------------------------------------------------------- C25 *)
\* C25: after every row-buffer operation (row insert, byte insert, byte delete,
\* split, join) every row's render text is at least as long as its bytes and
\* its highlight array is as long as its render text.
C25_ProjectionLengths ==
    /\ Len(editor.rows) = editor.num_rows
    /\ \A i \in 1..Len(editor.rows) :
          /\ Len(editor.rows[i].render) >= Len(editor.rows[i].chars)
          /\ Len(editor.rows[i].hl) = Len(editor.rows[i].render)

\* the rows "1" and "<TAB>" of the file were joined: the one row left has two
\* bytes, eight render columns and eight tags
C25_Witness ==
    /\ InEdit
    /\ mutated
    /\ editor.num_rows = 1
    /\ At(editor.rows, 0).chars = <<49, TAB>>
    /\ Len(At(editor.rows, 0).render) = 8
    /\ Len(At(editor.rows, 0).hl) = 8

(* --------------------------------------------------------------- C26 *)
\* the editor at the call of editor_update_row in editor_insert_row(at, s): the
\* row is in place, num_rows is not raised yet
AtInsertCall(E, at, s) ==
    [E EXCEPT !.rows = InsertAt(E.rows, at,
        [chars |-> s, render |-> <<>>, hl |-> <<>>, hl_open_comment |-> FALSE])]

\* the editor at the call of editor_update_row in editor_row_insert_char
AtTypeCall(E, ch) ==
    [E EXCEPT !.rows[E.cursor_y + 1].chars =
                  InsertAt(At(E.rows, E.cursor_y).chars, E.cursor_x, ch)]

\* the calls of editor_update_row that start a cascade when Enter is pressed
\* (the row inserted by editor_insert_newline) or a byte is typed on a row
CascadeCalls(E) ==
    (IF E.cursor_x = 0
     THEN {[E |-> AtInsertCall(E, E.cursor_y, <<>>), r |-> E.cursor_y]}
     ELSE {[E |-> AtInsertCall(E, E.cursor_y + 1,
                      SubSeq(At(E.rows, E.cursor_y).chars, E.cursor_x + 1,
                             Len(At(E.rows, E.cursor_y).chars))),
            r |-> E.cursor_y + 1]})
    \cup (IF E.cursor_y < E.num_rows
          THEN {[E |-> AtTypeCall(E, ch), r |-> E.cursor_y] : ch \in HlBytes}
          ELSE {})

\* the rows the claim has the cascade from row r re-highlight: r, r + 1, ... up
\* to the first row whose flag is the same after its rescan as before, and not
\* past the last row of the document
RECURSIVE ClaimedCascade(_, _)
ClaimedCascade(E, r) ==
    LET render == RenderFrom(At(E.rows, r).chars, 0, <<>>)
        after == SyntaxScan(highlight_db[E.syntax], render,
                            [k \in 1..Len(render) |-> HL_NORMAL], 0, TRUE,
                            r > 0 /\ At(E.rows, r - 1).hl_open_comment,
                            NUL).in_comment
    IN IF after = At(E.rows, r).hl_open_comment \/ r + 1 >= Len(E.rows)
       THEN <<r>>
       ELSE <<r>> \o ClaimedCascade(
                         [E EXCEPT !.rows[r + 1].hl_open_comment = after], r + 1)

\* C26 as stated: the cascade started by re-highlighting row r re-highlights
\* the rows r, r + 1, ... in increasing order, each once, not past the last
\* row, and stops at the first row whose comment_open flag is the same after
\* its rescan as before.
C26_AsStated ==
    (InEdit /\ editor.syntax # NO_SYNTAX) =>
        \A c \in CascadeCalls(editor) : Cascade(c.E, c.r) = ClaimedCascade(c.E, c.r)

====
